---- MODULE Spec2Model ----
(***************************************************************************)
(* The formatting orchestrator of the Vue language service (register,      *)
(* src/unnamed/part_000): two backend passes over the embedded documents   *)
(* of a composite document, an indentation-repair pass, and one optional   *)
(* whole-document edit.  Further down: the custom-block plugin of the      *)
(* language core (vue-sfc-customblocks.ts) and the template service plugin *)
(* (vue-template.ts).  Each has its own specification; the variables of    *)
(* the other parts stay at their idle values.                              *)
(*                                                                         *)
(* Text is a sequence of one-character strings; offsets are 0-based and a  *)
(* range [start, end] covers the characters start .. end-1, as in the      *)
(* code.  Positions (line, character) of the code are represented by the   *)
(* offsets they denote.                                                    *)
(***************************************************************************)
EXTENDS Integers, Sequences, FiniteSets, TLC

VARIABLES
    formatters,       \* the formatters handed to register(), and the script service
    document,         \* the document the invocation was called with
    newDocument,      \* the current composite document of the invocation
    sourceFile,       \* the SourceFile of the invocation: its document and source maps
    pc,               \* where the invocation stands
    maps,             \* the source maps the running loop iterates over
    idx,              \* index (1-based) of the next source map of the running loop
    pending,          \* backend requests issued and not yet answered
    edits,            \* pugEdits, htmlEdits, tsEdits, cssEdits
    indentTextEdits,  \* the result of patchInterpolationIndent
    returned,         \* what the invocation returned
    run,              \* number of the invocation (the caller may format again)
    lastCall,         \* the last backend response and its translation (history)
    fileName,         \* custom-block plugin: the name of the source file
    sfc,              \* custom-block plugin: the parsed file, its customBlocks
    names,            \* the embedded file names the host holds (they may be stale)
    embeddedFile,     \* the embedded file handed to resolveEmbeddedFile
    pluginCall,       \* the last call of the custom-block plugin and how it ended
    customData,       \* template service: the extra data installed on the base service
    request,          \* template service: the request to be handled
    serviceCall       \* template service: the last call and its result

formattingVars == <<formatters, document, newDocument, sourceFile, pc, maps, idx, pending,
                    edits, indentTextEdits, returned, run, lastCall>>

pluginVars == <<fileName, sfc, names, embeddedFile, pluginCall>>

serviceVars == <<customData, request, serviceCall>>

vars == <<formattingVars, pluginVars, serviceVars>>

\* the custom-block plugin before any file is handed to it
PluginIdle ==
    /\ fileName = <<>>
    /\ sfc = [customBlocks |-> <<>>]
    /\ names = <<>>
    /\ embeddedFile = [fileName |-> <<>>, content |-> <<>>]
    /\ pluginCall = [op |-> "none"]

\* the template service before any request
ServiceIdle ==
    /\ customData = <<>>
    /\ request = [op |-> "none"]
    /\ serviceCall = [op |-> "none"]

\* Number of invocations in sequence, each on the previous one's output.
MaxRuns == 2

NL == "\n"

\* String.prototype.trimStart strips these (the model has two of them).
Whitespace == {" ", "\t"}

-----------------------------------------------------------------------------
(* Strings *)

Min(a, b) == IF a < b THEN a ELSE b

Max(a, b) == IF a > b THEN a ELSE b

\* text.substring(start, end)
Slice(s, start, end) == SubSeq(s, start + 1, end)

\* s.startsWith(p)
StartsWith(s, p) == Len(p) <= Len(s) /\ SubSeq(s, 1, Len(p)) = p

\* s.length - s.trimStart().length
LeadingLen(s) ==
    CHOOSE k \in 0..Len(s) :
        /\ \A i \in 1..k : s[i] \in Whitespace
        /\ (k = Len(s) \/ s[k + 1] \notin Whitespace)

\* s.substr(0, s.length - s.trimStart().length)
LeadingWs(s) == SubSeq(s, 1, LeadingLen(s))

\* s.indexOf(p): the 0-based offset of the first occurrence, or -1
IndexOf(s, p) ==
    LET hits == {i \in 0..(Len(s) - Len(p)) : Slice(s, i, i + Len(p)) = p}
    IN  IF hits = {} THEN -1 ELSE CHOOSE i \in hits : \A j \in hits : i <= j

\* s.replace(p, r) with a string pattern: the first occurrence only
ReplaceFirst(s, p, r) ==
    LET i == IndexOf(s, p)
    IN  IF i = -1 THEN s
        ELSE Slice(s, 0, i) \o r \o Slice(s, i + Len(p), Len(s))

RECURSIVE SplitFrom(_, _, _)
SplitFrom(s, i, cur) ==
    IF i > Len(s) THEN <<cur>>
    ELSE IF s[i] = NL THEN <<cur>> \o SplitFrom(s, i + 1, <<>>)
    ELSE SplitFrom(s, i + 1, Append(cur, s[i]))

\* text.split('\n')
Split(s) == SplitFrom(s, 1, <<>>)

RECURSIVE Join(_)
\* lines.join('\n')
Join(lines) ==
    IF Len(lines) = 0 THEN <<>>
    ELSE IF Len(lines) = 1 THEN lines[1]
    ELSE lines[1] \o <<NL>> \o Join(Tail(lines))

\* offset of the first character of the line that holds offset off
\* (document.offsetAt({ line: positionAt(off).line, character: 0 }))
LineStart(text, off) ==
    LET nls == {i \in 1..off : text[i] = NL}
    IN  IF nls = {} THEN 0 ELSE CHOOSE i \in nls : \A j \in nls : j <= i

RECURSIVE Concat(_)
Concat(ss) == IF Len(ss) = 0 THEN <<>> ELSE ss[1] \o Concat(Tail(ss))

-----------------------------------------------------------------------------
(* Text edits: { range: { start, end }, newText } *)

TextEdit(start, end, newText) ==
    [range |-> [start |-> start, end |-> end], newText |-> newText]

RECURSIVE InsertByStart(_, _)
InsertByStart(sorted, e) ==
    IF Len(sorted) = 0 THEN <<e>>
    ELSE IF e.range.start < sorted[1].range.start THEN <<e>> \o sorted
    ELSE <<sorted[1]>> \o InsertByStart(Tail(sorted), e)

RECURSIVE SortByStart(_, _)
\* the stable merge sort of applyEdits: by start, equal starts in the given order
SortByStart(es, sorted) ==
    IF Len(es) = 0 THEN sorted
    ELSE SortByStart(Tail(es), InsertByStart(sorted, es[1]))

RECURSIVE ApplySorted(_, _, _, _)
ApplySorted(text, es, lastModifiedOffset, spans) ==
    IF Len(es) = 0
    THEN [ok |-> TRUE, text |-> spans \o Slice(text, lastModifiedOffset, Len(text))]
    ELSE IF es[1].range.start < lastModifiedOffset
    THEN [ok |-> FALSE, text |-> text]
    ELSE ApplySorted(text, Tail(es), es[1].range.end,
             spans \o Slice(text, lastModifiedOffset, es[1].range.start) \o es[1].newText)

\* TextDocument.applyEdits(document, edits): the new text, or ok = FALSE where the
\* library throws 'Overlapping edit'
applyEdits(text, es) == ApplySorted(text, SortByStart(es, <<>>), 0, <<>>)

\* TextDocument.create(uri, languageId, version, text)
TextDocument(version, text) == [version |-> version, text |-> text]

-----------------------------------------------------------------------------
(* Source maps and the SourceFile that generates them.                     *)
(* The composite text is split into blocks by one-character block openers; *)
(* a block's content runs to the next opener.  Inside a block, "~" ends a  *)
(* content chunk (the embedded document gets glue "#" in its place).  In a *)
(* template, "{...}" is an expression the template formatting script       *)
(* echoes with the formatting capability and "[...]" one it echoes without.*)

Glue == <<"#">>

Blocks ==
    [T |-> [block |-> "template", languageId |-> "html",   formatting |-> TRUE],
     H |-> [block |-> "template", languageId |-> "html",   formatting |-> FALSE],
     P |-> [block |-> "template", languageId |-> "pug",    formatting |-> TRUE],
     S |-> [block |-> "script",   languageId |-> "ts",     formatting |-> TRUE],
     G |-> [block |-> "script",   languageId |-> "ts",     formatting |-> FALSE],
     C |-> [block |-> "style",    languageId |-> "css",    formatting |-> TRUE],
     L |-> [block |-> "style",    languageId |-> "less",   formatting |-> TRUE],
     Q |-> [block |-> "style",    languageId |-> "scss",   formatting |-> TRUE],
     O |-> [block |-> "style",    languageId |-> "postcss", formatting |-> TRUE],
     X |-> [block |-> "style",    languageId |-> "stylus", formatting |-> TRUE],
     I |-> [block |-> "style",    languageId |-> "css",    formatting |-> FALSE]]

Openers == DOMAIN Blocks

RECURSIVE SectionsFrom(_, _)
\* the blocks of the text from index i on: opener, content range
SectionsFrom(text, i) ==
    IF i > Len(text) THEN <<>>
    ELSE IF text[i] \in Openers
    THEN LET later == {j \in (i + 1)..Len(text) : text[j] \in Openers}
             stop  == IF later = {} THEN Len(text)
                      ELSE (CHOOSE j \in later : \A k \in later : j <= k) - 1
         IN  <<[opener |-> text[i], start |-> i, end |-> stop]>>
                 \o SectionsFrom(text, stop + 1)
    ELSE SectionsFrom(text, i + 1)

Sections(text) == SectionsFrom(text, 1)

RECURSIVE Chunks(_, _, _, _, _)
\* the content chunks of [p, end), the current one starting at cs
Chunks(text, p, end, cs, formatting) ==
    IF p >= end THEN <<[start |-> cs, end |-> end, formatting |-> formatting]>>
    ELSE IF text[p + 1] = "~"
    THEN <<[start |-> cs, end |-> p, formatting |-> formatting]>>
             \o Chunks(text, p + 1, end, p + 1, formatting)
    ELSE Chunks(text, p + 1, end, cs, formatting)

RECURSIVE Groups(_, _, _)
\* the bracketed expressions of [p, end)
Groups(text, p, end) ==
    IF p >= end THEN <<>>
    ELSE IF text[p + 1] \in {"{", "["}
    THEN LET close  == IF text[p + 1] = "{" THEN "}" ELSE "]"
             closes == {q \in (p + 1)..(end - 1) : text[q + 1] = close}
         IN  IF closes = {} THEN <<>>
             ELSE LET q == CHOOSE c \in closes : \A d \in closes : c <= d
                  IN  <<[start |-> p + 1, end |-> q, formatting |-> text[p + 1] = "{"]>>
                          \o Groups(text, q + 1, end)
    ELSE Groups(text, p + 1, end)

RECURSIVE Assemble(_, _, _, _, _, _)
\* walk the chunks, accumulate the generated text and one mapping entry per chunk
Assemble(text, spans, k, glueFirst, genText, mappings) ==
    IF k > Len(spans) THEN [text |-> genText, mappings |-> mappings]
    ELSE LET glue  == IF k > 1 \/ glueFirst THEN Glue ELSE <<>>
             chunk == Slice(text, spans[k].start, spans[k].end)
             at    == Len(genText) + Len(glue)
         IN  Assemble(text, spans, k + 1, glueFirst, genText \o glue \o chunk,
                 Append(mappings,
                     [sourceRange |-> [start |-> spans[k].start, end |-> spans[k].end],
                      mappedRange |-> [start |-> at, end |-> at + Len(chunk)],
                      data |-> [capabilities |-> [formatting |-> spans[k].formatting]]]))

SourceMap(text, languageId, formatting, spans, glueFirst) ==
    LET gen == Assemble(text, spans, 1, glueFirst, <<>>, <<>>)
    IN  [capabilities   |-> [formatting |-> formatting],
         mappedDocument |-> [languageId |-> languageId, text |-> gen.text],
         mappings       |-> gen.mappings]

\* the source map of a block's own embedded document
BlockSourceMap(text, sec) ==
    SourceMap(text, Blocks[sec.opener].languageId, Blocks[sec.opener].formatting,
              Chunks(text, sec.start, sec.end, sec.start, Blocks[sec.opener].formatting),
              FALSE)

\* the source map of the template formatting script of a template block
FormattingScriptSourceMap(text, sec) ==
    SourceMap(text, "ts", TRUE, Groups(text, sec.start, sec.end), TRUE)

RECURSIVE MapsOf(_, _, _, _)
MapsOf(text, secs, block, languageIds) ==
    IF Len(secs) = 0 THEN <<>>
    ELSE (IF /\ Blocks[secs[1].opener].block = block
             /\ Blocks[secs[1].opener].languageId \in languageIds
          THEN <<BlockSourceMap(text, secs[1])>> ELSE <<>>)
         \o MapsOf(text, Tail(secs), block, languageIds)

RECURSIVE FormattingScripts(_, _)
FormattingScripts(text, secs) ==
    IF Len(secs) = 0 THEN <<>>
    ELSE IF Blocks[secs[1].opener].block = "template"
    THEN <<FormattingScriptSourceMap(text, secs[1])>>
    ELSE FormattingScripts(text, Tail(secs))

StyleLanguages == {"css", "less", "scss", "postcss", "stylus"}

\* the virtual documents and source maps a SourceFile holds for a document
Generate(doc) ==
    LET secs == Sections(doc.text)
    IN  [document |-> doc,
         pugSourceMaps  |-> MapsOf(doc.text, secs, "template", {"pug"}),
         htmlSourceMaps |-> MapsOf(doc.text, secs, "template", {"html"}),
         cssSourceMaps  |-> MapsOf(doc.text, secs, "style", StyleLanguages),
         templateFormattingScript |-> [sourceMap |-> FormattingScripts(doc.text, secs)],
         docLsScripts   |-> [sourceMaps |-> MapsOf(doc.text, secs, "script", {"ts"})]]

\* createSourceFile(document, context)
createSourceFile(doc) == Generate(doc) @@ [updates |-> 0]

\* update keeping the maps of the old text
update_KeepsMaps(sf, doc) == [sf EXCEPT !.updates = @ + 1]

\* sourceFile.update(newDocument)
update(sf, doc) == Generate(doc) @@ [updates |-> sf.updates + 1]


-----------------------------------------------------------------------------
(* Projection of generated ranges onto the composite document *)

\* whether the generated range [start, end] meets the mapping entry m of map sm
Intersects(sm, m, start, end) ==
    IF start = end
    THEN \/ m.mappedRange.start <= start /\ start < m.mappedRange.end
         \/ /\ start = m.mappedRange.end
            /\ \A i \in 1..Len(sm.mappings) : sm.mappings[i].mappedRange.start # start
    ELSE Max(start, m.mappedRange.start) < Min(end, m.mappedRange.end)

\* the part of m's source range that the generated range [start, end] maps to
Narrowed(m, start, end) ==
    [start |-> m.sourceRange.start + (Max(start, m.mappedRange.start) - m.mappedRange.start),
     end   |-> m.sourceRange.start + (Min(end, m.mappedRange.end) - m.mappedRange.start),
     data  |-> m.data]

\* sourceMap.getSourceRanges(start, end): one source range per entry met, in order
getSourceRanges(sm, start, end) ==
    LET met == SelectSeq(sm.mappings, LAMBDA m : Intersects(sm, m, start, end))
    IN  [i \in 1..Len(met) |-> Narrowed(met[i], start, end)]

\* sourceMap.getSourceRange(start, end): the first of them, if any
getSourceRange(sm, start, end) ==
    LET all == getSourceRanges(sm, start, end)
    IN  IF Len(all) = 0 THEN <<>> ELSE <<all[1]>>

\* transformTextEdit(edit, getOtherRange): the edit with its range replaced, if any
transformTextEdit(edit, otherRange) ==
    IF Len(otherRange) = 0 THEN <<>>
    ELSE <<TextEdit(otherRange[1].start, otherRange[1].end, edit.newText)>>

-----------------------------------------------------------------------------
(* The formatting backends.  A backend is a deterministic function of the  *)
(* embedded document's text; it returns edits, throws, or returns nothing. *)

RECURSIVE DedentFrom(_, _)
\* one deleting edit per run of whitespace that follows a newline
DedentFrom(text, i) ==
    IF i > Len(text) THEN <<>>
    ELSE IF text[i] = NL
    THEN LET n == LeadingLen(SubSeq(text, i + 1, Len(text)))
         IN  IF n > 0 THEN <<TextEdit(i, i + n, <<>>)>> \o DedentFrom(text, i + n + 1)
             ELSE DedentFrom(text, i + 1)
    ELSE DedentFrom(text, i + 1)

Dedent(text) == applyEdits(text, DedentFrom(text, 1)).text

Profiles == {"noop", "dedent", "whole", "throws", "nothing"}

\* the answer of a backend of the given profile for an embedded document
Response(profile, text) ==
    CASE profile = "noop"    -> [kind |-> "edits", edits |-> <<>>]
      [] profile = "dedent"  -> [kind |-> "edits", edits |-> DedentFrom(text, 1)]
      [] profile = "whole"   ->
            [kind |-> "edits",
             edits |-> IF Dedent(text) = text THEN <<>>
                       ELSE <<TextEdit(0, Len(text), Dedent(text))>>]
      [] profile = "throws"  -> [kind |-> "throws", edits |-> <<>>]
      [] profile = "nothing" -> [kind |-> "undefined", edits |-> <<>>]

-----------------------------------------------------------------------------
(* patchInterpolationIndent *)

\* getRemoveIndent reading the first line
getRemoveIndent_FirstLine(lines) == LeadingWs(lines[1])

\* leading whitespace of the last line of the span
getRemoveIndent(lines) == LeadingWs(lines[Len(lines)])

\* leading whitespace of the text between the start of the span's line and the span
getBaseIndent(text, maped) ==
    LeadingWs(Slice(text, LineStart(text, maped.sourceRange.start), maped.sourceRange.start))

\* PatchLine leaving a line that starts with the removal indent as it is
PatchLine_KeepsIndented(line, removeIndent, baseIndent) ==
    IF StartsWith(line, removeIndent) THEN line
    ELSE ReplaceFirst(baseIndent, removeIndent, <<>>) \o line

\* the body of the loop over the lines after the first
PatchLine(line, removeIndent, baseIndent) ==
    IF StartsWith(line, removeIndent)
    THEN ReplaceFirst(line, removeIndent, baseIndent)
    ELSE ReplaceFirst(baseIndent, removeIndent, <<>>) \o line

\* the edit of one mapping entry of the template formatting script, if any
PatchEdit(text, maped) ==
    IF ~maped.data.capabilities.formatting THEN <<>>
    ELSE LET t == Slice(text, maped.sourceRange.start, maped.sourceRange.end)
         IN  IF IndexOf(t, <<NL>>) = -1 THEN <<>>
             ELSE LET lines        == Split(t)
                      removeIndent == getRemoveIndent(lines)
                      baseIndent   == getBaseIndent(text, maped)
                      patched      == [i \in 1..Len(lines) |->
                                          IF i = 1 THEN lines[1]
                                          ELSE PatchLine(lines[i], removeIndent, baseIndent)]
                  IN  <<TextEdit(maped.sourceRange.start, maped.sourceRange.end,
                                 Join(patched))>>

patchInterpolationIndent(sf) ==
    LET tsSourceMap == sf.templateFormattingScript.sourceMap
    IN  IF Len(tsSourceMap) = 0 THEN <<>>
        ELSE Concat([i \in 1..Len(tsSourceMap[1].mappings) |->
                        PatchEdit(sf.document.text, tsSourceMap[1].mappings[i])])


-----------------------------------------------------------------------------
(* The documents formatted: a single-file component of at most one         *)
(* template, one script and one style part, each from a small set.         *)

Templates ==
    { <<>>,
      \* two multi-line expressions, the second starting on the first's last line
      <<"T", NL, " ", " ", "{", "a", NL, " ", "a", "}", " ", "{", "a", NL, "a", "}">>,
      \* an expression indented with a tab inside, the line with a space
      <<"T", NL, " ", "{", "a", NL, "\t", "a", "}">>,
      \* an expression echoed without the formatting capability
      <<"T", NL, " ", "[", "a", NL, " ", " ", "a", "]">>,
      \* a markup document whose source map lacks the formatting capability
      <<"H", NL, " ", "a">>,
      \* a pug template
      <<"P", NL, " ", "a", "{", "a", "}">> }

Scripts ==
    { <<>>,
      <<"S", NL, " ", "a">>,
      <<"G", NL, " ", "a">> }

Styles ==
    { <<>>,
      <<"C", NL, " ", "a">>,
      <<"L", NL, " ", "a">>,
      <<"X", NL, " ", "a">>,
      <<"I", NL, " ", "a">>,
      \* a style document of two chunks
      <<"C", NL, " ", "a", "~", NL, " ", "a">>,
      \* two style blocks
      <<"C", NL, " ", "a", "L", "a">> }

Documents == {t \o s \o c : t \in Templates, s \in Scripts, c \in Styles} \ {<<>>}

FormatterNames == {"html", "pug", "css", "less", "scss", "postcss", "ts"}

\* the formatters a document can reach: those of the languages of its blocks
\* (the script service also formats the template formatting script)
Reachable(text) ==
    LET secs == Sections(text)
        ids  == {Blocks[secs[i].opener].languageId : i \in 1..Len(secs)}
    IN  (ids \cap FormatterNames)
            \cup (IF \E i \in 1..Len(secs) : Blocks[secs[i].opener].block = "template"
                  THEN {"ts"} ELSE {})

\* A formatter that the document cannot reach is never called: it is fixed to
\* "noop", so that constructions that behave alike are enumerated once.
FormatterSets(text) ==
    {[n \in FormatterNames |-> IF n \in Reachable(text) THEN f[n] ELSE "noop"] :
        f \in [Reachable(text) -> Profiles]}

-----------------------------------------------------------------------------
(* The invocation: the async function register() returns *)

Loops == {"pug", "html", "ts", "css"}

NoEdits == [pug |-> <<>>, html |-> <<>>, ts |-> <<>>, css |-> <<>>]

NoCall == [phase |-> "none"]

\* the state at the first await of an invocation on doc
Invoked(doc) ==
    /\ document = doc
    /\ newDocument = doc
    /\ sourceFile = createSourceFile(doc)
    /\ pc = "pug"
    /\ maps = createSourceFile(doc).pugSourceMaps
    /\ idx = 1
    /\ pending = {}
    /\ edits = NoEdits
    /\ indentTextEdits = <<>>
    /\ returned = <<>>
    /\ lastCall = NoCall

Init ==
    /\ \E t \in Documents :
        /\ Invoked(TextDocument(1, t))
        /\ formatters \in FormatterSets(t)
    /\ run = 1
    /\ PluginIdle
    /\ ServiceIdle

\* FormatterName calling formatters.css for every style document
FormatterName_AlwaysCss(phase, sm) ==
    CASE phase = "pug"  -> "pug"
      [] phase = "html" -> "html"
      [] phase = "ts"   -> "ts"
      [] phase = "css"  -> "css"

\* the name of the formatter a loop calls for a source map: formatters.pug,
\* formatters.html, the script service, formatters[languageId]
FormatterName(phase, sm) ==
    CASE phase = "pug"  -> "pug"
      [] phase = "html" -> "html"
      [] phase = "ts"   -> "ts"
      [] phase = "css"  -> sm.mappedDocument.languageId

\* the formatter a loop calls for a source map
FormatterOf(phase, sm) == formatters[FormatterName(phase, sm)]

\* the `continue`s at the head of a loop body
Skips(phase, sm) ==
    CASE phase = "css" ->
            \/ ~sm.capabilities.formatting
            \/ sm.mappedDocument.languageId \notin {"css", "less", "scss", "postcss"}
      [] phase = "ts"  -> ~sm.capabilities.formatting
      [] OTHER -> FALSE

\* the translated edits of one backend edit
TranslateEdit(phase, sm, textEdit) ==
    IF phase = "ts"
    THEN LET vueRanges == SelectSeq(
                 getSourceRanges(sm, textEdit.range.start, textEdit.range.end),
                 LAMBDA vueRange : vueRange.data.capabilities.formatting)
         IN  [i \in 1..Len(vueRanges) |->
                 TextEdit(vueRanges[i].start, vueRanges[i].end, textEdit.newText)]
    ELSE transformTextEdit(textEdit,
             getSourceRange(sm, textEdit.range.start, textEdit.range.end))

\* per backend edit, the edits pushed to the loop's result
Translate(phase, sm, textEdits) ==
    [i \in 1..Len(textEdits) |-> TranslateEdit(phase, sm, textEdits[i])]

\* Awaiting with the await dropped
Awaiting_Never == FALSE

\* the async function is suspended at an await while a request is outstanding
Awaiting == pending # {}

\* a loop body reaches `continue`
Continue ==
    /\ pc \in Loops /\ ~Awaiting
    /\ idx <= Len(maps)
    /\ Skips(pc, maps[idx])
    /\ idx' = idx + 1
    /\ UNCHANGED <<pluginVars, serviceVars, formatters, document, newDocument, sourceFile, pc, maps, pending,
                   edits, indentTextEdits, returned, run, lastCall>>

\* a loop body calls the backend and awaits
Request ==
    /\ pc \in Loops /\ ~Awaiting
    /\ idx <= Len(maps)
    /\ ~Skips(pc, maps[idx])
    /\ pending' = pending \cup {[phase |-> pc, index |-> idx, sourceMap |-> maps[idx],
                                 formatter |-> FormatterName(pc, maps[idx])]}
    /\ idx' = idx + 1
    /\ UNCHANGED <<pluginVars, serviceVars, formatters, document, newDocument, sourceFile, pc, maps,
                   edits, indentTextEdits, returned, run, lastCall>>

\* the backend answers with edits: they are translated and pushed
Respond ==
    \E r \in pending :
        LET resp == Response(formatters[r.formatter], r.sourceMap.mappedDocument.text)
            per  == Translate(r.phase, r.sourceMap, resp.edits)
        IN  /\ resp.kind = "edits"
            /\ edits' = [edits EXCEPT ![r.phase] = @ \o Concat(per)]
            /\ pending' = pending \ {r}
            /\ lastCall' = [phase |-> r.phase, sourceMap |-> r.sourceMap, formatter |-> r.formatter,
                            response |-> resp, translated |-> per]
            /\ UNCHANGED <<pluginVars, serviceVars, formatters, document, newDocument, sourceFile, pc, maps,
                           idx, indentTextEdits, returned, run>>

\* the backend rejects, or returns undefined and the for-of over it throws:
\* nothing catches it, the invocation rejects
Throw ==
    \E r \in pending :
        LET resp == Response(formatters[r.formatter], r.sourceMap.mappedDocument.text)
        IN  /\ resp.kind # "edits"
            /\ pc' = "rejected"
            /\ pending' = pending \ {r}
            /\ lastCall' = [phase |-> r.phase, sourceMap |-> r.sourceMap, formatter |-> r.formatter,
                            response |-> resp, translated |-> <<>>]
            /\ UNCHANGED <<pluginVars, serviceVars, formatters, document, newDocument, sourceFile, maps,
                           idx, edits, indentTextEdits, returned, run>>

\* tsSourceMaps without the script documents
tsSourceMaps_FormattingScriptOnly(sf) == sf.templateFormattingScript.sourceMap

\* the source maps getTsFormattingEdits iterates over
tsSourceMaps(sf) == sf.templateFormattingScript.sourceMap \o sf.docLsScripts.sourceMaps

\* HasEdits counting the first loop's edits only
HasEdits_FirstOnly(a, b) == Len(a) > 0

\* pugEdits.length + htmlEdits.length > 0, tsEdits.length + cssEdits.length > 0
HasEdits(a, b) == Len(a) + Len(b) > 0

\* what follows a loop in the body of the async function
AfterLoop(phase) ==
    CASE phase = "pug"  -> "html"
      [] phase = "html" -> "pass1"
      [] phase = "ts"   -> "css"
      [] phase = "css"  -> "pass2"

\* a loop ends and its function returns; the next one starts
Return ==
    /\ pc \in Loops /\ ~Awaiting
    /\ idx > Len(maps)
    /\ pc' = AfterLoop(pc)
    /\ maps' = CASE pc = "pug" -> sourceFile.htmlSourceMaps
                 [] pc = "ts"  -> sourceFile.cssSourceMaps
                 [] OTHER -> <<>>
    /\ idx' = 1
    /\ UNCHANGED <<pluginVars, serviceVars, formatters, document, newDocument, sourceFile, pending,
                   edits, indentTextEdits, returned, run, lastCall>>

\* ApplyPass without sourceFile.update
ApplyPass_NoUpdate(passEdits, next) ==
    LET r == applyEdits(newDocument.text, passEdits)
    IN  IF r.ok
        THEN /\ newDocument' = TextDocument(newDocument.version + 1, r.text)
             /\ sourceFile' = sourceFile
             /\ pc' = next
        ELSE /\ pc' = "rejected"
             /\ UNCHANGED <<newDocument, sourceFile>>

\* the body of the if: the edits applied to newDocument, the SourceFile updated
ApplyPass(passEdits, next) ==
    LET r == applyEdits(newDocument.text, passEdits)
    IN  IF r.ok
        THEN /\ newDocument' = TextDocument(newDocument.version + 1, r.text)
             /\ sourceFile' = update(sourceFile, newDocument')
             /\ pc' = next
        ELSE /\ pc' = "rejected"
             /\ UNCHANGED <<newDocument, sourceFile>>

\* after the pug and html loops
Pass1 ==
    /\ pc = "pass1"
    /\ IF HasEdits(edits.pug, edits.html)
       THEN ApplyPass(edits.pug \o edits.html, "ts")
       ELSE pc' = "ts" /\ UNCHANGED <<newDocument, sourceFile>>
    /\ maps' = tsSourceMaps(sourceFile')
    /\ idx' = 1
    /\ UNCHANGED <<pluginVars, serviceVars, formatters, document, pending, edits, indentTextEdits, returned,
                   run, lastCall>>

\* after the script and style loops
Pass2 ==
    /\ pc = "pass2"
    /\ IF HasEdits(edits.ts, edits.css)
       THEN ApplyPass(edits.ts \o edits.css, "patch")
       ELSE pc' = "patch" /\ UNCHANGED <<newDocument, sourceFile>>
    /\ UNCHANGED <<pluginVars, serviceVars, formatters, document, maps, idx, pending, edits, indentTextEdits,
                   returned, run, lastCall>>

\* the indentation repair and its application
Patch ==
    /\ pc = "patch"
    /\ indentTextEdits' = patchInterpolationIndent(sourceFile)
    /\ LET r == applyEdits(newDocument.text, indentTextEdits')
       IN  IF r.ok
           THEN /\ newDocument' = TextDocument(newDocument.version + 1, r.text)
                /\ pc' = "return"
           ELSE /\ pc' = "rejected"
                /\ UNCHANGED newDocument
    /\ UNCHANGED <<pluginVars, serviceVars, formatters, document, sourceFile, maps, idx, pending, edits,
                   returned, run, lastCall>>

\* WholeDocumentEdit ranging over the new text's length
WholeDocumentEdit_NewLength(doc, newDoc) ==
    TextEdit(0, Len(newDoc.text), newDoc.text)

\* TextEdit.replace(Range(positionAt(0), positionAt(document.getText().length)),
\*                  newDocument.getText())
WholeDocumentEdit(doc, newDoc) == TextEdit(0, Len(doc.text), newDoc.text)

\* the function returns: nothing, or the one edit
Finish ==
    /\ pc = "return"
    /\ returned' = IF newDocument.text = document.text THEN <<>>
                   ELSE <<WholeDocumentEdit(document, newDocument)>>
    /\ pc' = "done"
    /\ UNCHANGED <<pluginVars, serviceVars, formatters, document, newDocument, sourceFile, maps, idx, pending,
                   edits, indentTextEdits, run, lastCall>>

\* the caller applies what was returned and formats the document again
FormatAgain ==
    /\ pc = "done" /\ run < MaxRuns
    /\ run' = run + 1
    /\ LET text == applyEdits(document.text, returned).text
       IN  /\ document' = TextDocument(document.version + Len(returned), text)
           /\ newDocument' = document'
           /\ sourceFile' = createSourceFile(document')
           /\ maps' = sourceFile'.pugSourceMaps
    /\ pc' = "pug"
    /\ idx' = 1
    /\ pending' = {}
    /\ edits' = NoEdits
    /\ indentTextEdits' = <<>>
    /\ returned' = <<>>
    /\ lastCall' = NoCall
    /\ UNCHANGED <<pluginVars, serviceVars, formatters>>

Next ==
    \/ Continue
    \/ Request
    \/ Respond
    \/ Throw
    \/ Return
    \/ Pass1
    \/ Pass2
    \/ Patch
    \/ Finish
    \/ FormatAgain

Spec == Init /\ [][Next]_vars


-----------------------------------------------------------------------------
(* patchInterpolationIndent as a function of its input: the invocation at  *)
(* the indentation repair, both passes having yielded no edits, for every  *)
(* small template with one bracketed expression.                           *)

\* Longest indentation of the line that holds the expression.
MaxIndent == 2

\* Longest expression.
MaxSpan == 4

Strings(chars, n) == UNION {[1..k -> chars] : k \in 0..n}

PatchChars == {" ", "\t", NL, "a"}

\* the spec's example: '<div>', 'a', 'b', '</div>' on a line indented by two spaces
ExampleSpan ==
    <<"<", "d", "i", "v", ">", NL, "a", NL, "b", NL, "<", "/", "d", "i", "v", ">">>

ExampleText == <<"T", NL, " ", " ", "{">> \o ExampleSpan \o <<"}">>

C8_ExpectedText ==
    <<"<", "d", "i", "v", ">", NL, " ", " ", "a", NL, " ", " ", "b", NL,
      " ", " ", "<", "/", "d", "i", "v", ">">>

PatchTexts ==
    {<<"T", NL>> \o indent \o <<b[1]>> \o span \o <<b[2]>> :
        indent \in Strings(Whitespace, MaxIndent),
        span \in Strings(PatchChars, MaxSpan),
        b \in {<<"{", "}">>, <<"[", "]">>}}
    \cup {ExampleText, <<"S", NL, " ", "a">>}

InitPatch ==
    /\ \E t \in PatchTexts :
        /\ document = TextDocument(1, t)
        /\ sourceFile = createSourceFile(TextDocument(1, t))
    /\ newDocument = document
    /\ formatters = [n \in FormatterNames |-> "noop"]
    /\ pc = "patch"
    /\ maps = <<>>
    /\ idx = 1
    /\ pending = {}
    /\ edits = NoEdits
    /\ indentTextEdits = <<>>
    /\ returned = <<>>
    /\ lastCall = NoCall
    /\ run = MaxRuns
    /\ PluginIdle
    /\ ServiceIdle

NextPatch ==
    \/ Patch
    \/ Finish

SpecPatch == InitPatch /\ [][NextPatch]_vars

-----------------------------------------------------------------------------
(* The custom-block plugin (vue-sfc-customblocks.ts): the names of the      *)
(* embedded files of a file's custom blocks, and the content of one of     *)
(* them.  File names, block types and languages are sequences of           *)
(* one-character strings.                                                  *)

\* Most custom blocks of a file.
MaxBlocks == 2

Digits == <<"0", "1", "2", "3", "4", "5", "6", "7", "8", "9">>

RECURSIVE Decimal(_)
\* string + number: the decimal digits of a non-negative integer
Decimal(i) ==
    IF i < 10 THEN <<Digits[i + 1]>>
    ELSE Decimal(i \div 10) \o <<Digits[(i % 10) + 1]>>

IsDigit(c) == \E d \in 1..10 : Digits[d] = c

DigitValue(c) == (CHOOSE d \in 1..10 : Digits[d] = c) - 1

RECURSIVE parseIntFrom(_, _, _)
parseIntFrom(ds, i, value) ==
    IF i > Len(ds) THEN value
    ELSE parseIntFrom(ds, i + 1, value * 10 + DigitValue(ds[i]))

\* parseInt(s) of a string of digits
parseInt(ds) == parseIntFrom(ds, 1, 0)

\* '.customBlock_'
Marker == <<".", "c", "u", "s", "t", "o", "m", "B", "l", "o", "c", "k", "_">>

\* the groups 2, 3, 4 of customBlockReg when '\.customBlock_' matches at offset p:
\* ([^_]+) runs to the first '_', (\d+) is the run of digits after it, which '\.'
\* must follow, and ([^.]+)$ is the rest, without '.'
GroupsAt(name, p) ==
    IF ~StartsWith(Slice(name, p, Len(name)), Marker) THEN <<>>
    ELSE LET r  == Slice(name, p + Len(Marker), Len(name))
             u  == IndexOf(r, <<"_">>)
             ds == {d \in 0..(Len(r) - u - 1) : \A k \in 1..d : IsDigit(r[u + 1 + k])}
             d  == CHOOSE x \in ds : \A y \in ds : y <= x
             l  == Slice(r, u + 1 + d + 1, Len(r))
         IN  IF /\ u >= 1
                /\ d >= 1
                /\ Len(r) >= u + 1 + d + 1
                /\ r[u + 1 + d + 1] = "."
                /\ Len(l) >= 1
                /\ IndexOf(l, <<".">>) = -1
             THEN <<[type |-> Slice(r, 0, u), index |-> Slice(r, u + 1, u + 1 + d), lang |-> l]>>
             ELSE <<>>

\* fileName.match(customBlockReg), the pattern being
\* ^(.*)\.customBlock_([^_]+)_(\d+)\.([^.]+)$ : the match with the longest (.*),
\* or none
customBlockReg(name) ==
    LET ps == {p \in 0..Len(name) : GroupsAt(name, p) # <<>>}
    IN  IF ps = {} THEN <<>>
        ELSE GroupsAt(name, CHOOSE p \in ps : \A q \in ps : q <= p)

\* enableAllFeatures({})
enableAllFeatures ==
    [formatting |-> TRUE, completion |-> TRUE, diagnostics |-> TRUE, hover |-> TRUE,
     semanticTokens |-> TRUE, references |-> TRUE]

\* NameOf numbering the blocks from 1
NameOf_OneBased(file, customBlock, i) ==
    file \o Marker \o customBlock.type \o <<"_">> \o Decimal(i + 1) \o <<".">> \o customBlock.lang

\* fileName + '.customBlock_' + customBlock.type + '_' + i + '.' + customBlock.lang
NameOf(file, customBlock, i) ==
    file \o Marker \o customBlock.type \o <<"_">> \o Decimal(i) \o <<".">> \o customBlock.lang

\* getEmbeddedFileNames(fileName, sfc)
getEmbeddedFileNames(file, parsed) ==
    [k \in 1..Len(parsed.customBlocks) |-> NameOf(file, parsed.customBlocks[k], k - 1)]

\* resolveEmbeddedFile taking the first custom block for a name that does not match
resolveEmbeddedFile_FirstBlock(parsed, file) ==
    LET match == customBlockReg(file.fileName)
        index == IF match = <<>> THEN 0 ELSE parseInt(match[1].index)
    IN  IF index >= Len(parsed.customBlocks)
        THEN [embeddedFile |-> file, threw |-> TRUE]
        ELSE LET customBlock == parsed.customBlocks[index + 1]
             IN  [embeddedFile |->
                     [file EXCEPT !.content =
                         Append(@, <<customBlock.content, customBlock.name, 0,
                                     enableAllFeatures>>)],
                  threw |-> FALSE]

\* resolveEmbeddedFile(_fileName, sfc, embeddedFile): the embedded file after the
\* call, and whether the call threw (reading .content of undefined)
resolveEmbeddedFile(parsed, file) ==
    LET match == customBlockReg(file.fileName)
    IN  IF match = <<>> THEN [embeddedFile |-> file, threw |-> FALSE]
        ELSE LET index == parseInt(match[1].index)
             IN  IF index >= Len(parsed.customBlocks)
                 THEN [embeddedFile |-> file, threw |-> TRUE]
                 ELSE LET customBlock == parsed.customBlocks[index + 1]
                      IN  [embeddedFile |->
                              [file EXCEPT !.content =
                                  Append(@, <<customBlock.content, customBlock.name, 0,
                                              enableAllFeatures>>)],
                           threw |-> FALSE]

\* the formatting orchestrator with no invocation to speak of
FormattingIdle ==
    /\ formatters = [n \in FormatterNames |-> "noop"]
    /\ Invoked(TextDocument(1, <<>>))
    /\ run = 1

\* the type, language and content of the custom blocks a file may hold
BlockKinds ==
    { [type |-> <<"d", "o", "c", "s">>, lang |-> <<"m", "d">>, content |-> <<"a", NL>>],
      [type |-> <<"i", "1", "8", "n">>, lang |-> <<"j", "s">>, content |-> <<"b">>],
      \* a block type with an underscore
      [type |-> <<"m", "y", "_", "b">>, lang |-> <<"m", "d">>, content |-> <<"c">>],
      \* a language with a dot
      [type |-> <<"d", "o", "c", "s">>, lang |-> <<"d", ".", "t", "s">>, content |-> <<"d">>] }

FileNames ==
    { <<"W", ".", "v", "u", "e">>,
      \* a file whose own name has the shape of an embedded file name
      <<"W">> \o Marker \o <<"a", "_", "1", ".", "b">> }

\* the parsed file: the custom blocks in order, the i-th named 'customBlock_' + i
Parsed(kinds) ==
    [customBlocks |->
        [k \in 1..Len(kinds) |->
            [type |-> kinds[k].type, lang |-> kinds[k].lang, content |-> kinds[k].content,
             name |-> Tail(Marker) \o Decimal(k - 1)]]]

\* names of embedded files that other plugins produce, or that no block has
OtherNames(file) ==
    { file \o <<".", "t", "s">>,
      file \o <<".", "c", "u", "s", "t", "o", "m", "B", "l", "o", "c", "k", ".", "m", "d">>,
      file \o Marker \o <<"d", "o", "c", "s", "_", "1", "2", ".", "m", "d">> }

InitCustomBlocks ==
    /\ fileName \in FileNames
    /\ \E n \in 0..MaxBlocks : \E kinds \in [1..n -> BlockKinds] : sfc = Parsed(kinds)
    /\ names = <<>>
    /\ embeddedFile = [fileName |-> <<>>, content |-> <<>>]
    /\ pluginCall = [op |-> "none"]
    /\ FormattingIdle
    /\ ServiceIdle

\* the host asks the plugin for the names of the embedded files
GetEmbeddedFileNames ==
    /\ names' = getEmbeddedFileNames(fileName, sfc)
    /\ pluginCall' = [op |-> "getEmbeddedFileNames"]
    /\ UNCHANGED <<formattingVars, serviceVars, fileName, sfc, embeddedFile>>

\* the host creates the embedded file of a name it holds, or of another plugin's
\* name, and asks the plugin to resolve it
ResolveEmbeddedFile ==
    \E target \in {names[k] : k \in 1..Len(names)} \cup OtherNames(fileName) :
        LET r == resolveEmbeddedFile(sfc, [fileName |-> target, content |-> <<>>])
        IN  /\ embeddedFile' = r.embeddedFile
            /\ pluginCall' = [op |-> "resolveEmbeddedFile", threw |-> r.threw]
            /\ UNCHANGED <<formattingVars, serviceVars, fileName, sfc, names>>

\* the file is edited: its last custom block is removed; the names the host holds
\* are those of the previous version until it asks again
RemoveBlock ==
    /\ Len(sfc.customBlocks) > 0
    /\ sfc' = [customBlocks |-> SubSeq(sfc.customBlocks, 1, Len(sfc.customBlocks) - 1)]
    /\ pluginCall' = [op |-> "none"]
    /\ UNCHANGED <<formattingVars, serviceVars, fileName, names, embeddedFile>>

NextCustomBlocks ==
    \/ GetEmbeddedFileNames
    \/ ResolveEmbeddedFile
    \/ RemoveBlock

SpecCustomBlocks == InitCustomBlocks /\ [][NextCustomBlocks]_vars

-----------------------------------------------------------------------------
(* The template service plugin (vue-template.ts): a wrapper of the base    *)
(* markup service that installs Vue data on it before a completion and     *)
(* recolours and reorders the items after it, adds the template            *)
(* compiler's diagnostics, and adds semantic tokens for component tags.    *)
(* Strings are sequences of one-character strings.                         *)

Upper == <<"A", "B", "C", "D", "E", "F", "G", "H", "I", "J", "K", "L", "M", "N", "O", "P", "Q", "R", "S", "T", "U", "V", "W", "X", "Y", "Z">>

Lower == <<"a", "b", "c", "d", "e", "f", "g", "h", "i", "j", "k", "l", "m", "n", "o", "p", "q", "r", "s", "t", "u", "v", "w", "x", "y", "z">>

IsUpper(c) == \E k \in 1..26 : Upper[k] = c

IsLower(c) == \E k \in 1..26 : Lower[k] = c

\* c.toLowerCase()
toLowerCase(c) == IF IsUpper(c) THEN Lower[CHOOSE k \in 1..26 : Upper[k] = c] ELSE c

\* c.toUpperCase()
toUpperCase(c) == IF IsLower(c) THEN Upper[CHOOSE k \in 1..26 : Lower[k] = c] ELSE c

\* \w
IsWord(c) == IsUpper(c) \/ IsLower(c) \/ IsDigit(c) \/ c = "_"

\* hyphenate of @vue/shared: str.replace(/\B([A-Z])/g, '-$1').toLowerCase()
hyphenate(str) ==
    Concat([k \in 1..Len(str) |->
        IF IsUpper(str[k]) /\ k > 1 /\ IsWord(str[k - 1])
        THEN <<"-", toLowerCase(str[k])>>
        ELSE <<toLowerCase(str[k])>>])

\* camelize of @vue/shared: str.replace(/-(\w)/g, (_, c) => c.toUpperCase())
RECURSIVE camelize(_)
camelize(str) ==
    IF Len(str) = 0 THEN <<>>
    ELSE IF Len(str) >= 2 /\ str[1] = "-" /\ IsWord(str[2])
    THEN <<toUpperCase(str[2])>> \o camelize(SubSeq(str, 3, Len(str)))
    ELSE <<str[1]>> \o camelize(Tail(str))

\* hyphenateTag of @vue/language-core
hyphenateTag(str) == hyphenate(camelize(str))

\* hyphenateAttr of @vue/language-core: an upper-case first letter keeps its hyphen
hyphenateAttr(str) ==
    IF Len(str) > 0 /\ IsUpper(str[1]) THEN <<"-">> \o hyphenate(str) ELSE hyphenate(str)

RECURSIVE SplitBy(_, _)
\* str.split(sep) for a non-empty separator
SplitBy(str, sep) ==
    LET i == IndexOf(str, sep)
    IN  IF i = -1 THEN <<str>>
        ELSE <<Slice(str, 0, i)>> \o SplitBy(Slice(str, i + Len(sep), Len(str)), sep)

RECURSIVE JoinWith(_, _)
\* strs.join(sep)
JoinWith(strs, sep) ==
    IF Len(strs) = 0 THEN <<>>
    ELSE IF Len(strs) = 1 THEN strs[1]
    ELSE strs[1] \o sep \o JoinWith(Tail(strs), sep)

\* '__VLS_::'
Sentinel == <<"_", "_", "V", "L", "S", "_", ":", ":">>

componentProp == <<"c", "o", "m", "p", "o", "n", "e", "n", "t", "P", "r", "o", "p">>

componentEvent == <<"c", "o", "m", "p", "o", "n", "e", "n", "t", "E", "v", "e", "n", "t">>

\* createInternalItemId joining the arguments with '::'
createInternalItemId_JoinedByColons(type, args) ==
    Sentinel \o type \o <<":", ":">> \o JoinWith(args, <<":", ":">>)

\* createInternalItemId(type, args)
createInternalItemId(type, args) == Sentinel \o type \o <<":", ":">> \o JoinWith(args, <<",">>)

\* readInternalItemId(key): nothing, or the type and the arguments; reading
\* strs[2] of a key without a second '::' throws
readInternalItemId(key) ==
    IF ~StartsWith(key, Sentinel) THEN [found |-> FALSE, threw |-> FALSE]
    ELSE LET strs == SplitBy(key, <<":", ":">>)
         IN  IF Len(strs) < 3 THEN [found |-> FALSE, threw |-> TRUE]
             ELSE [found |-> TRUE, threw |-> FALSE,
                   type |-> strs[2], args |-> SplitBy(strs[3], <<",">>)]

\* the characters '\u0000' .. '\u0003' that afterHtmlCompletion puts before a
\* sortText
U0 == "\\u0000"

U1 == "\\u0001"

U2 == "\\u0002"

U3 == "\\u0003"

\* vscode.CompletionItemKind
Kind ==
    [Function |-> 3, Field |-> 5, Variable |-> 6, Property |-> 10, Value |-> 12,
     Keyword |-> 14, EnumMember |-> 20, Event |-> 23]

\* a completion item: documentation, sortText and textEdit are <<>> where the
\* item has none, and a one-element sequence otherwise
CompletionItem(label, kind, documentation, textEdit) ==
    [label |-> label, kind |-> kind, documentation |-> documentation,
     sortText |-> <<>>, textEdit |-> textEdit]

\* The Vue source files of the project: what the script analysis resolves for
\* each (getComponentNames, getPropsByTag, getEventsOfTag, getElementAttrs,
\* getNameCasing) and what the template compiler reported (sfc.template).
NoLoc == <<>>

CompilerError(message, loc) == [message |-> message, code |-> 1, loc |-> loc]

VueFiles ==
    { [uri |-> "A.vue",
       components |-> <<<<"M", "y", "C", "o", "m", "p">>, <<"F", "o", "o">>>>,
       componentTag |-> {<<"M", "y", "C", "o", "m", "p">>, <<"m", "y", "-", "c", "o", "m", "p">>,
                        <<"F", "o", "o", ".", "B", "a", "r">>},
       props  |-> <<<<"f", "o", "o">>, <<"f", "o", "o", "B", "a", "r">>>>,
       required |-> <<<<"f", "o", "o">>, <<"f", "o", "o", "B", "a", "r">>>>,
       events |-> <<<<"b", "a", "r">>>>,
       attrs  |-> <<<<"i", "d">>, <<"o", "n", "C", "l", "i", "c", "k">>>>,
       casing |-> [tag |-> "Pascal", attr |-> "Camel"],
       template |-> <<[errors   |-> <<CompilerError("e1", NoLoc),
                                      CompilerError("e2", <<[start |-> 3, end |-> 8]>>)>>,
                       warnings |-> <<CompilerError("w1", NoLoc)>>]>>],
      [uri |-> "B.vue",
       components |-> <<<<"O", "t", "h", "e", "r">>>>,
       componentTag |-> {<<"O", "t", "h", "e", "r">>, <<"o", "t", "h", "e", "r">>},
       props  |-> <<<<"m", "o", "d", "e", "l", "V", "a", "l", "u", "e">>>>,
       required |-> <<<<"m", "o", "d", "e", "l", "V", "a", "l", "u", "e">>>>,
       events |-> <<<<"u", "p", "d", "a", "t", "e", ":", "m", "o", "d", "e", "l", "V", "a", "l", "u", "e">>>>,
       attrs  |-> <<<<"i", "d">>>>,
       casing |-> [tag |-> "Kebab", attr |-> "Kebab"],
       template |-> <<[errors |-> <<>>, warnings |-> <<CompilerError("w2", NoLoc)>>]>>],
      [uri |-> "C.vue",
       components |-> <<>>,
       componentTag |-> {},
       props  |-> <<>>,
       required |-> <<>>,
       events |-> <<>>,
       attrs  |-> <<>>,
       casing |-> [tag |-> "Kebab", attr |-> "Kebab"],
       template |-> <<>>] }

\* getComponentNames(ts, languageService, vueSourceFile, vueCompilerOptions)
getComponentNames(vf) == vf.components

\* getPropsByTag(ts, languageService, vueSourceFile, tag, vueCompilerOptions)
getPropsByTag(vf, tag) == IF tag \in vf.componentTag THEN vf.props ELSE <<>>

\* getPropsByTag(ts, languageService, vueSourceFile, tag, vueCompilerOptions, true):
\* the required props only
getRequiredPropsByTag(vf, tag) == IF tag \in vf.componentTag THEN vf.required ELSE <<>>

\* getEventsOfTag(ts, languageService, vueSourceFile, tag, vueCompilerOptions)
getEventsOfTag(vf, tag) == IF tag \in vf.componentTag THEN vf.events ELSE <<>>

\* getElementAttrs(ts, languageService, fileName, tag)
getElementAttrs(vf, tag) == vf.attrs

\* getNameCasing(ts, context, uri, vueCompilerOptions)
getNameCasing(vf) == vf.casing

Elements(seq) == {seq[k] : k \in 1..Len(seq)}

\* the attributes the data provider 'vue-template' gives for a prop or element
\* attribute: the body of the first loop of provideAttributes
AttributesOfProp(vf, tag, prop) ==
    LET isGlobal == prop \notin Elements(getPropsByTag(vf, tag))
        who      == IF isGlobal THEN <<"*">> ELSE tag
        name     == IF getNameCasing(vf).attr = "Camel" THEN prop ELSE hyphenateAttr(prop)
        propNameBase ==
            IF StartsWith(name, <<"o", "n", "-">>) THEN Slice(name, 3, Len(name))
            ELSE <<toLowerCase(name[3])>> \o Slice(name, 3, Len(name))
        eventKey == createInternalItemId(componentEvent, <<who, propNameBase>>)
        propKey  == createInternalItemId(componentProp, <<who, name>>)
    IN  (IF StartsWith(hyphenateAttr(name), <<"o", "n", "-">>)
         THEN <<[name |-> <<"v", "-", "o", "n", ":">> \o propNameBase, description |-> <<eventKey>>],
                [name |-> <<"@">> \o propNameBase, description |-> <<eventKey>>]>>
         ELSE <<>>)
        \o <<[name |-> name, description |-> <<propKey>>],
             [name |-> <<":">> \o name, description |-> <<propKey>>],
             [name |-> <<"v", "-", "b", "i", "n", "d", ":">> \o name, description |-> <<propKey>>]>>

\* the body of the loop over the events
AttributesOfEvent(vf, tag, event) ==
    LET name    == IF getNameCasing(vf).attr = "Camel" THEN event ELSE hyphenateAttr(event)
        propKey == createInternalItemId(componentEvent, <<tag, name>>)
    IN  <<[name |-> <<"v", "-", "o", "n", ":">> \o name, description |-> <<propKey>>],
          [name |-> <<"@">> \o name, description |-> <<propKey>>]>>

\* the v-model targets: props and attributes 'onUpdate:x', events 'update:x'
Models(vf, tag) ==
    LET props  == getPropsByTag(vf, tag)
        all    == props \o getElementAttrs(vf, tag)
        events == getEventsOfTag(vf, tag)
        ofProps  == SelectSeq(all, LAMBDA prop : StartsWith(prop, <<"o", "n", "U", "p", "d", "a", "t", "e", ":">>))
        ofEvents == SelectSeq(events, LAMBDA event : StartsWith(event, <<"u", "p", "d", "a", "t", "e", ":">>))
    IN  [k \in 1..Len(ofProps) |->
            [isGlobal |-> ofProps[k] \notin Elements(props),
             model |-> Slice(ofProps[k], 9, Len(ofProps[k]))]]
        \o [k \in 1..Len(ofEvents) |->
            [isGlobal |-> FALSE, model |-> Slice(ofEvents[k], 7, Len(ofEvents[k]))]]

\* the body of the loop over the models
AttributesOfModel(vf, tag, m) ==
    LET name    == IF getNameCasing(vf).attr = "Camel" THEN m.model ELSE hyphenateAttr(m.model)
        propKey == createInternalItemId(componentProp,
                       <<IF m.isGlobal THEN <<"*">> ELSE tag, name>>)
    IN  <<[name |-> <<"v", "-", "m", "o", "d", "e", "l", ":">> \o name, description |-> <<propKey>>]>>
        \o (IF m.model = <<"m", "o", "d", "e", "l", "V", "a", "l", "u", "e">>
            THEN <<[name |-> <<"v", "-", "m", "o", "d", "e", "l">>, description |-> <<propKey>>]>>
            ELSE <<>>)

\* provideAttributes(tag) of the data provider 'vue-template' of a Vue file
provideAttributes(vf, tag) ==
    LET all    == getPropsByTag(vf, tag) \o getElementAttrs(vf, tag)
        events == getEventsOfTag(vf, tag)
        models == Models(vf, tag)
    IN  Concat([k \in 1..Len(all) |-> AttributesOfProp(vf, tag, all[k])])
        \o Concat([k \in 1..Len(events) |-> AttributesOfEvent(vf, tag, events[k])])
        \o Concat([k \in 1..Len(models) |-> AttributesOfModel(vf, tag, models[k])])

\* provideTags() of the data provider 'vue-template': the component names in the
\* tag casing of the file
provideTags(vf) ==
    LET components == getComponentNames(vf)
    IN  [k \in 1..Len(components) |->
            [name |-> IF getNameCasing(vf).tag = "Kebab" THEN hyphenateTag(components[k])
                      ELSE components[k]]]

\* the global attributes of builtInData (vue-template-built-in)
builtInData ==
    [globalAttributes |-> <<<<"v", "-", "i", "f">>, <<"v", "-", "e", "l", "s", "e", "-", "i", "f">>, <<"v", "-", "e", "l", "s", "e">>, <<"v", "-", "f", "o", "r">>,
                            <<"v", "-", "s", "h", "o", "w">>>>]

\* the modifiers read from builtInData (v-on, v-bind) and from modelData
eventModifiers == <<<<"s", "t", "o", "p">>>>

propModifiers == <<<<"c", "a", "m", "e", "l">>>>

modelData == [globalAttributes |-> <<<<"l", "a", "z", "y">>>>]

\* the extra data provideHtmlData installs on the base service:
\* options.updateCustomData(baseServiceInstance, [built-in, vue-template])
provideHtmlData(vf) ==
    <<[id |-> "vue-template-built-in"], [id |-> "vue-template", vueSourceFile |-> vf.uri]>>

VueFileOf(uri) == CHOOSE vf \in VueFiles : vf.uri = uri

-----------------------------------------------------------------------------
(* The base markup service, as far as the plugin relies on it: its         *)
(* completion items come from its own data and from the extra data         *)
(* installed on it; an attribute's description becomes the item's          *)
(* documentation.                                                          *)

GenericText == <<"t", "e", "x", "t">>

\* the positions a completion is asked at: in a tag name, or in an attribute
\* name of a tag; typed is the text the items' textEdit replaces
CompletionContexts ==
    { [at |-> "tag",  tag |-> <<>>,        typed |-> <<>>],
      [at |-> "attr", tag |-> <<"M", "y", "C", "o", "m", "p">>, typed |-> <<>>],
      [at |-> "attr", tag |-> <<"M", "y", "C", "o", "m", "p">>, typed |-> <<"@", "b", "a", "r", ".">>],
      [at |-> "attr", tag |-> <<"o", "t", "h", "e", "r">>,  typed |-> <<"v", "-", "m", "o", "d", "e", "l", ".">>],
      [at |-> "attr", tag |-> <<"d", "i", "v">>,    typed |-> <<":", "i", "d", ".">>] }

\* the items the base service makes of one data provider installed on it
ItemsOfProvider(provider, ctx) ==
    LET textEdit(label) == <<[text |-> ctx.typed, newText |-> label]>>
    IN  IF provider.id = "vue-template-built-in"
        THEN IF ctx.at = "tag" THEN <<>>
             ELSE [k \in 1..Len(builtInData.globalAttributes) |->
                      CompletionItem(builtInData.globalAttributes[k], Kind.Value,
                          <<GenericText>>, textEdit(builtInData.globalAttributes[k]))]
        ELSE LET vf == VueFileOf(provider.vueSourceFile)
             IN  IF ctx.at = "tag"
                 THEN LET tags == provideTags(vf)
                      IN  [k \in 1..Len(tags) |->
                              CompletionItem(tags[k].name, Kind.Property, <<>>,
                                  textEdit(tags[k].name))]
                 ELSE LET attributes == provideAttributes(vf, ctx.tag)
                      IN  [k \in 1..Len(attributes) |->
                              CompletionItem(attributes[k].name, Kind.Value,
                                  attributes[k].description, textEdit(attributes[k].name))]

\* baseServiceInstance.provideCompletionItems(document, position, ...) when it
\* answers: the items of the base service's own data, then those of the extra data
BaseCompletion(ctx, data) ==
    LET own == IF ctx.at = "tag"
               THEN <<CompletionItem(<<"d", "i", "v">>, Kind.Property, <<GenericText>>,
                          <<[text |-> ctx.typed, newText |-> <<"d", "i", "v">>]>>)>>
               ELSE <<CompletionItem(<<"c", "l", "a", "s", "s">>, Kind.Value, <<GenericText>>,
                          <<[text |-> ctx.typed, newText |-> <<"c", "l", "a", "s", "s">>]>>)>>
    IN  own \o Concat([k \in 1..Len(data) |-> ItemsOfProvider(data[k], ctx)])

-----------------------------------------------------------------------------
(* afterHtmlCompletion *)

\* getReplacement(list, doc): the text under the first item's textEdit, if any
getReplacement(items) ==
    LET with == SelectSeq(items, LAMBDA item : item.textEdit # <<>>)
    IN  IF Len(with) = 0 THEN <<>> ELSE <<[text |-> with[1].textEdit[1].text]>>

\* the items pushed for the modifiers that the replaced text does not have yet
ModifierItems(items) ==
    LET replacement == getReplacement(items)
    IN  IF replacement = <<>> THEN <<>>
        ELSE LET text    == replacement[1].text
                 parts   == SplitBy(text, <<".">>)
                 isEvent == StartsWith(text, <<"v", "-", "o", "n", ":">>) \/ StartsWith(text, <<"@">>)
                 isProp  == StartsWith(text, <<"v", "-", "b", "i", "n", "d", ":">>) \/ StartsWith(text, <<":">>)
                 isModel == StartsWith(text, <<"v", "-", "m", "o", "d", "e", "l", ":">>) \/ parts[1] = <<"v", "-", "m", "o", "d", "e", "l">>
                 hasModifier == IndexOf(text, <<".">>) >= 0
                 modifiers   == Tail(parts)
                 textWithoutModifier == parts[1]
                 valid == IF isEvent /\ hasModifier THEN eventModifiers
                          ELSE IF isProp /\ hasModifier THEN propModifiers
                          ELSE IF hasModifier /\ isModel THEN modelData.globalAttributes
                          ELSE <<>>
                 fresh == SelectSeq(valid, LAMBDA modifier : modifier \notin Elements(modifiers))
                 kept  == SubSeq(modifiers, 1, Len(modifiers) - 1)
                 insertText(modifier) ==
                     textWithoutModifier
                         \o Concat([k \in 1..Len(kept) |-> <<".">> \o kept[k]])
                         \o <<".">> \o modifier
             IN  [k \in 1..Len(fresh) |->
                     CompletionItem(fresh[k], Kind.EnumMember, <<GenericText>>,
                         <<[text |-> text, newText |-> insertText(fresh[k])]>>)]

\* item.sortText ?? item.label
SortTextOrLabel(item) == IF item.sortText = <<>> THEN item.label ELSE item.sortText[1]

\* typeof item.documentation === 'string' ? item.documentation : item.documentation?.value
ItemIdKey(item) == IF item.documentation = <<>> THEN <<>> ELSE item.documentation[1]

\* readInternalItemId of the item's documentation, when it has a non-empty one
ItemId(item) ==
    IF ItemIdKey(item) = <<>> THEN [found |-> FALSE, threw |-> FALSE]
    ELSE readInternalItemId(ItemIdKey(item))

StructuralDirectives == {<<"v", "-", "i", "f">>, <<"v", "-", "e", "l", "s", "e", "-", "i", "f">>, <<"v", "-", "e", "l", "s", "e">>, <<"v", "-", "f", "o", "r">>}

\* the body of the loop over completionList.items
Recolour(item, componentNames) ==
    LET itemId   == ItemId(item)
        stripped == IF itemId.found THEN [item EXCEPT !.documentation = <<>>] ELSE item
        prefixed(c) == <<<<c>> \o SortTextOrLabel(item)>>
    IN  IF item.kind = Kind.Property /\ hyphenateTag(item.label) \in componentNames
        THEN [stripped EXCEPT !.kind = Kind.Variable, !.sortText = prefixed(U0)]
        ELSE IF itemId.found /\ itemId.type \in {componentProp, componentEvent}
        THEN LET componentName == itemId.args[1]
                 sorted == IF componentName # <<"*">>
                           THEN [stripped EXCEPT !.sortText = prefixed(U0)] ELSE stripped
             IN  IF itemId.type = componentProp
                 THEN IF componentName # <<"*">> THEN [sorted EXCEPT !.kind = Kind.Field]
                      ELSE sorted
                 ELSE [sorted EXCEPT !.kind = IF componentName # <<"*">> THEN Kind.Function
                                              ELSE Kind.Event]
        ELSE IF item.label \in StructuralDirectives
        THEN [stripped EXCEPT !.kind = Kind.Keyword, !.sortText = prefixed(U3)]
        ELSE IF StartsWith(item.label, <<"v", "-">>)
        THEN [stripped EXCEPT !.kind = Kind.Function, !.sortText = prefixed(U2)]
        ELSE [stripped EXCEPT !.sortText = prefixed(U1)]

\* afterHtmlCompletion(completionList, map, vueSourceFile): the items after it
afterHtmlCompletion(items, vf) ==
    LET componentNames == {hyphenateTag(c) : c \in Elements(getComponentNames(vf))}
        all == items \o ModifierItems(items)
    IN  [k \in 1..Len(all) |-> Recolour(all[k], componentNames)]

\* whether a readInternalItemId of afterHtmlCompletion throws
afterHtmlCompletionThrows(items) ==
    \E k \in 1..Len(items) : ItemId(items[k]).threw

-----------------------------------------------------------------------------
(* The documents the service is asked about *)

\* Most elements of a document's markup.
MaxElements == 2

TagNames == {<<"M", "y", "C", "o", "m", "p">>, <<"m", "y", "-", "c", "o", "m", "p">>, <<"d", "i", "v">>, <<"F", "o", "o", ".", "B", "a", "r">>}

\* an element of the markup: a start tag, an end tag; a start tag may have
\* attributes, each a name and at most one quoted value
ElementKinds ==
    [tag : {"open", "close"}, name : TagNames, attrs : {<<>>}]

Attribute(name, value) == [name |-> name, value |-> value]

RECURSIVE RenderAttributes(_)
\* the text of the attributes of a start tag, each after one space
RenderAttributes(attrs) ==
    IF Len(attrs) = 0 THEN <<>>
    ELSE <<" ">> \o attrs[1].name
         \o (IF attrs[1].value = <<>> THEN <<>> ELSE <<"=">> \o attrs[1].value[1])
         \o RenderAttributes(Tail(attrs))

RECURSIVE Render(_)
\* the text of a sequence of elements, one per line
Render(elements) ==
    IF Len(elements) = 0 THEN <<>>
    ELSE LET e == elements[1]
             a == RenderAttributes(e.attrs)
             t == CASE e.tag = "open"      -> <<"<">> \o e.name \o a \o <<">">>
                    [] e.tag = "selfClose" -> <<"<">> \o e.name \o a \o <<"/", ">">>
                    [] e.tag = "close"     -> <<"<", "/">> \o e.name \o <<">">>
         IN  t \o (IF Len(elements) > 1 THEN <<NL>> ELSE <<>>) \o Render(Tail(elements))

Token(type, offset, text) ==
    [type |-> type, offset |-> offset, length |-> Len(text), text |-> text]

RECURSIVE AttributeTokens(_, _)
\* the tokens html.Scanner yields for the attributes of a start tag
AttributeTokens(attrs, offset) ==
    IF Len(attrs) = 0 THEN <<>>
    ELSE LET a   == attrs[1]
             n   == Len(a.name)
             own == <<Token("Whitespace", offset, <<" ">>),
                      Token("AttributeName", offset + 1, a.name)>>
                    \o (IF a.value = <<>> THEN <<>>
                        ELSE <<Token("DelimiterAssign", offset + 1 + n, <<"=">>),
                               Token("AttributeValue", offset + 2 + n, a.value[1])>>)
             end == own[Len(own)].offset + own[Len(own)].length
         IN  own \o AttributeTokens(Tail(attrs), end)

RECURSIVE Scan(_, _)
\* the tokens html.Scanner yields for the text of the elements, up to EOS
Scan(elements, offset) ==
    IF Len(elements) = 0 THEN <<>>
    ELSE LET e == elements[1]
             n == Len(e.name)
             a == AttributeTokens(e.attrs, offset + 1 + n)
             close == IF Len(a) = 0 THEN offset + 1 + n
                      ELSE a[Len(a)].offset + a[Len(a)].length
             t == CASE e.tag = "open" ->
                         <<Token("StartTagOpen", offset, <<"<">>),
                           Token("StartTag", offset + 1, e.name)>>
                         \o a \o <<Token("StartTagClose", close, <<">">>)>>
                    [] e.tag = "selfClose" ->
                         <<Token("StartTagOpen", offset, <<"<">>),
                           Token("StartTag", offset + 1, e.name)>>
                         \o a \o <<Token("StartTagSelfClose", close, <<"/", ">">>)>>
                    [] e.tag = "close" ->
                         <<Token("EndTagOpen", offset, <<"<", "/">>),
                           Token("EndTag", offset + 2, e.name),
                           Token("EndTagClose", offset + 2 + n, <<">">>)>>
             end == t[Len(t)].offset + t[Len(t)].length
         IN  IF Len(elements) = 1 THEN t
             ELSE t \o <<Token("Content", end, <<NL>>)>> \o Scan(Tail(elements), end + 1)

\* document.positionAt(offset): the offset is brought into the text first
positionAt(text, offset) ==
    LET at == Max(Min(offset, Len(text)), 0)
    IN  [line      |-> Cardinality({i \in 1..at : text[i] = NL}),
         character |-> at - LineStart(text, at)]

\* what the language context knows of a document: whether the plugin supports it
\* (isSupportedDocument), whether it is a virtual file (getVirtualFile), and the
\* source files its maps lead to (getMaps, getSourceFile), Vue files or not
DocumentKinds ==
    { [uri |-> "A.vue.template.html", supported |-> TRUE, virtual |-> TRUE,
       maps |-> <<[vue |-> TRUE, source |-> "A.vue"]>>],
      [uri |-> "B.vue.template.html", supported |-> TRUE, virtual |-> TRUE,
       maps |-> <<[vue |-> TRUE, source |-> "B.vue"]>>],
      [uri |-> "M.md.template.html", supported |-> TRUE, virtual |-> TRUE,
       maps |-> <<[vue |-> FALSE, source |-> "M.md"], [vue |-> TRUE, source |-> "C.vue"]>>],
      [uri |-> "N.md.html", supported |-> TRUE, virtual |-> TRUE,
       maps |-> <<[vue |-> FALSE, source |-> "N.md"]>>],
      [uri |-> "page.html", supported |-> TRUE, virtual |-> FALSE, maps |-> <<>>],
      [uri |-> "style.css", supported |-> FALSE, virtual |-> FALSE, maps |-> <<>>] }

-----------------------------------------------------------------------------
(* The handlers of the plugin: each gives the result of the call and the   *)
(* extra data left on the base service.                                    *)

Undefined == [kind |-> "undefined"]

RECURSIVE InstallAll(_, _)
\* the first loop of provideCompletionItems: provideHtmlData for every Vue map
InstallAll(sourceMaps, data) ==
    IF Len(sourceMaps) = 0 THEN data
    ELSE InstallAll(Tail(sourceMaps),
             IF sourceMaps[1].vue THEN provideHtmlData(VueFileOf(sourceMaps[1].source))
             ELSE data)

RECURSIVE AfterAll(_, _, _)
\* the second loop: afterHtmlCompletion for every Vue map, which ends with
\* options.updateCustomData(baseServiceInstance, [])
AfterAll(sourceMaps, items, data) ==
    IF Len(sourceMaps) = 0 THEN [kind |-> "list", items |-> items, customData |-> data]
    ELSE IF ~sourceMaps[1].vue THEN AfterAll(Tail(sourceMaps), items, data)
    ELSE IF afterHtmlCompletionThrows(items \o ModifierItems(items))
    THEN [kind |-> "rejected", items |-> <<>>, customData |-> data]
    ELSE AfterAll(Tail(sourceMaps),
             afterHtmlCompletion(items, VueFileOf(sourceMaps[1].source)), <<>>)

\* provideCompletionItems(document, position, completionContext, token);
\* answered: whether the base service returns a list
provideCompletionItems(doc, ctx, answered, data) ==
    IF ~doc.supported THEN [kind |-> "undefined", items |-> <<>>, customData |-> data]
    ELSE LET sourceMaps == IF doc.virtual THEN doc.maps ELSE <<>>
             installed  == InstallAll(sourceMaps, data)
         IN  IF ~answered
             THEN [kind |-> "undefined", items |-> <<>>, customData |-> installed]
             ELSE AfterAll(sourceMaps, BaseCompletion(ctx, installed), installed)

\* vscode.DiagnosticSeverity
Severity == [Error |-> 1, Warning |-> 2]

\* onCompilerError placing an error without a location at the end of the document
onCompilerError_AtEnd(text, error, severity) ==
    LET templateHtmlRange ==
            [start |-> IF error.loc = NoLoc THEN Len(text) ELSE error.loc[1].start,
             end   |-> IF error.loc = NoLoc THEN Len(text) ELSE error.loc[1].end]
    IN  [range |-> [start |-> positionAt(text, templateHtmlRange.start),
                    end   |-> positionAt(text, templateHtmlRange.end)],
         severity |-> severity,
         code |-> error.code,
         source |-> "vue",
         message |-> error.message]

\* onCompilerError(error, severity): the diagnostic pushed to templateErrors
onCompilerError(text, error, severity) ==
    LET templateHtmlRange ==
            [start |-> IF error.loc = NoLoc THEN 0 ELSE error.loc[1].start,
             end   |-> IF error.loc = NoLoc THEN 0 ELSE error.loc[1].end]
    IN  [range |-> [start |-> positionAt(text, templateHtmlRange.start),
                    end   |-> positionAt(text, templateHtmlRange.end)],
         severity |-> severity,
         code |-> error.code,
         source |-> "vue",
         message |-> error.message]

\* templateErrors after the two loops over template.errors and template.warnings
templateErrors(text, vf) ==
    IF vf.template = <<>> THEN <<>>
    ELSE LET template == vf.template[1]
         IN  [k \in 1..Len(template.errors) |->
                 onCompilerError(text, template.errors[k], Severity.Error)]
             \o [k \in 1..Len(template.warnings) |->
                 onCompilerError(text, template.warnings[k], Severity.Warning)]

\* provideDiagnostics(document, token); originalResult is <<>> where the base
\* service returns undefined and a one-element sequence otherwise
provideDiagnostics(doc, text, originalResult) ==
    IF ~doc.supported \/ ~doc.virtual THEN Undefined
    ELSE LET vues == SelectSeq(doc.maps, LAMBDA map : map.vue)
         IN  IF Len(vues) = 0 THEN Undefined
             ELSE [kind |-> "list",
                   items |-> (IF originalResult = <<>> THEN <<>> ELSE originalResult[1])
                             \o templateErrors(text, VueFileOf(vues[1].source))]

\* legend.tokenTypes.indexOf(name)
indexOf(tokenTypes, name) ==
    LET at == {k \in 1..Len(tokenTypes) : tokenTypes[k] = name}
    IN  IF at = {} THEN -1 ELSE (CHOOSE k \in at : \A j \in at : k <= j) - 1

\* ComponentTokenType reading 'class' first
ComponentTokenType_Class(legend) ==
    IF indexOf(legend.tokenTypes, "class") = -1 THEN indexOf(legend.tokenTypes, "component")
    ELSE indexOf(legend.tokenTypes, "class")

\* the token type of a component tag: 'component', else 'class'
ComponentTokenType(legend) ==
    IF indexOf(legend.tokenTypes, "component") = -1 THEN indexOf(legend.tokenTypes, "class")
    ELSE indexOf(legend.tokenTypes, "component")

RECURSIVE ScanLoop(_, _, _, _, _, _, _)
\* the while loop over the scanner's tokens for one Vue map, from the scanner's
\* position on: the position it leaves the scanner at, and the result
ScanLoop(text, tokens, pos, components, offsetRange, legend, result) ==
    IF pos > Len(tokens) THEN [pos |-> pos, result |-> result]
    ELSE LET token == tokens[pos]
         IN  IF token.offset > offsetRange.end THEN [pos |-> pos + 1, result |-> result]
             ELSE ScanLoop(text, tokens, pos + 1, components, offsetRange, legend,
                      IF /\ token.offset >= offsetRange.start
                         /\ token.type \in {"StartTag", "EndTag"}
                         /\ token.text \in components
                      THEN Append(result,
                               <<positionAt(text, token.offset).line,
                                 positionAt(text, token.offset).character,
                                 token.length, ComponentTokenType(legend), 0>>)
                      ELSE result)

RECURSIVE TokensOfMaps(_, _, _, _, _, _, _)
\* the loop over the maps; the scanner is the same for all of them
TokensOfMaps(sourceMaps, text, tokens, pos, offsetRange, legend, result) ==
    IF Len(sourceMaps) = 0 THEN result
    ELSE IF ~sourceMaps[1].vue
    THEN TokensOfMaps(Tail(sourceMaps), text, tokens, pos, offsetRange, legend, result)
    ELSE LET templateScriptData == getComponentNames(VueFileOf(sourceMaps[1].source))
             components == Elements(templateScriptData)
                               \cup {hyphenateTag(c) : c \in Elements(templateScriptData)}
             after == ScanLoop(text, tokens, pos, components, offsetRange, legend, result)
         IN  TokensOfMaps(Tail(sourceMaps), text, tokens, after.pos, offsetRange, legend,
                 after.result)

\* provideDocumentSemanticTokens(document, range, legend, token); base is <<>>
\* where the base service returns undefined; hasScanner: whether getScanner
\* gives a scanner
provideDocumentSemanticTokens(doc, elements, offsetRange, legend, base, hasScanner) ==
    IF ~doc.supported \/ ~hasScanner \/ ~doc.virtual THEN Undefined
    ELSE [kind |-> "list",
          items |-> TokensOfMaps(doc.maps, Render(elements), Scan(elements, 0), 1,
                        offsetRange, legend, IF base = <<>> THEN <<>> ELSE base[1])]

\* getVueOptions(context.env)
vueCompilerOptions == [target |-> 3]

\* the attribute name an AttributeName token is compared with the required props
\* by: the modifiers are removed, and the name is normalized
NormalizedAttr(text) ==
    LET attrText == IF IndexOf(text, <<".">>) >= 0 THEN SplitBy(text, <<".">>)[1] ELSE text
        after(prefix) == Slice(attrText, Len(prefix), Len(attrText))
    IN  IF StartsWith(attrText, <<"v", "-", "b", "i", "n", "d", ":">>) THEN after(<<"v", "-", "b", "i", "n", "d", ":">>)
        ELSE IF StartsWith(attrText, <<":">>) THEN after(<<":">>)
        ELSE IF StartsWith(attrText, <<"v", "-", "m", "o", "d", "e", "l", ":">>) THEN after(<<"v", "-", "m", "o", "d", "e", "l", ":">>)
        ELSE IF attrText = <<"v", "-", "m", "o", "d", "e", "l">>
        THEN (IF vueCompilerOptions.target >= 3 THEN <<"m", "o", "d", "e", "l", "V", "a", "l", "u", "e">> ELSE <<"v", "a", "l", "u", "e">>)
        ELSE IF StartsWith(attrText, <<"@">>) THEN <<"o", "n", "-">> \o hyphenateAttr(after(<<"@">>))
        ELSE attrText

\* Unburned taking a bare v-bind for an attribute like any other
Unburned_BareVBindKept(unburnedRequiredProps, text) ==
    SelectSeq(unburnedRequiredProps,
        LAMBDA propName : /\ NormalizedAttr(text) # propName
                          /\ NormalizedAttr(text) # hyphenateAttr(propName))

\* the required props an attribute leaves unburned
Unburned(unburnedRequiredProps, text) ==
    IF text = <<"v", "-", "b", "i", "n", "d">> THEN <<>>
    ELSE SelectSeq(unburnedRequiredProps,
             LAMBDA propName : /\ NormalizedAttr(text) # propName
                               /\ NormalizedAttr(text) # hyphenateAttr(propName))

\* the tag whose props a start tag is checked against: the tag itself where its
\* name has a '.', else the component found for it; <<>> where there is none
checkTag(vf, tagName) ==
    LET components == getComponentNames(vf)
        component  ==
            IF IndexOf(tagName, <<".">>) >= 0
            THEN SelectSeq(components, LAMBDA c : c = SplitBy(tagName, <<".">>)[1])
            ELSE SelectSeq(components, LAMBDA c : c = tagName \/ hyphenateTag(c) = tagName)
    IN  IF IndexOf(tagName, <<".">>) >= 0 THEN <<tagName>>
        ELSE IF Len(component) = 0 THEN <<>>
        ELSE <<component[1]>>

\* the hint pushed for a required prop
InlayHint(text, vf, current, requiredProp) ==
    [label |-> requiredProp \o <<"!">>,
     paddingLeft |-> TRUE,
     position |-> positionAt(text, current.labelOffset),
     kind |-> 2,
     textEdits |-> <<[range |-> [start |-> positionAt(text, current.insertOffset),
                                 end   |-> positionAt(text, current.insertOffset)],
                      newText |-> <<" ", ":">>
                                  \o (IF getNameCasing(vf).attr = "Kebab"
                                      THEN hyphenateAttr(requiredProp) ELSE requiredProp)
                                  \o <<"=">>]>>]

RECURSIVE HintLoop(_, _, _, _, _, _)
\* the while loop over the scanner's tokens for one Vue map; current is <<>> or
\* holds the record of the component tag being read
HintLoop(text, tokens, pos, vf, current, result) ==
    IF pos > Len(tokens) THEN result
    ELSE LET token == tokens[pos]
             end   == token.offset + token.length
             step  ==
                 CASE token.type = "StartTag" ->
                        LET tag == checkTag(vf, token.text)
                        IN  IF tag # <<>>
                            THEN [current |-> <<[unburnedRequiredProps |->
                                                    getRequiredPropsByTag(vf, tag[1]),
                                                 labelOffset |-> end,
                                                 insertOffset |-> end]>>,
                                  result |-> result]
                            ELSE [current |-> current, result |-> result]
                   [] token.type = "AttributeName" /\ current # <<>> ->
                        [current |-> <<[current[1] EXCEPT !.unburnedRequiredProps =
                                           Unburned(@, token.text)]>>,
                         result |-> result]
                   [] token.type \in {"StartTagSelfClose", "StartTagClose"}
                          /\ current # <<>> ->
                        [current |-> <<>>,
                         result |-> result \o
                             [k \in 1..Len(current[1].unburnedRequiredProps) |->
                                 InlayHint(text, vf, current[1],
                                     current[1].unburnedRequiredProps[k])]]
                   [] OTHER -> [current |-> current, result |-> result]
             moved ==
                 IF token.type \in {"AttributeName", "AttributeValue"} /\ step.current # <<>>
                 THEN <<[step.current[1] EXCEPT !.insertOffset = end]>>
                 ELSE step.current
         IN  HintLoop(text, tokens, pos + 1, vf, moved, step.result)

RECURSIVE HintsOfMaps(_, _, _, _, _)
\* the loop over the maps; every map gets a scanner of its own
HintsOfMaps(sourceMaps, text, tokens, hasScanner, result) ==
    IF Len(sourceMaps) = 0 THEN result
    ELSE HintsOfMaps(Tail(sourceMaps), text, tokens, hasScanner,
             IF sourceMaps[1].vue /\ hasScanner
             THEN HintLoop(text, tokens, 1, VueFileOf(sourceMaps[1].source), <<>>, result)
             ELSE result)

\* provideInlayHints(document); missingProps is what getConfiguration gives for
\* 'vue.inlayHints.missingProps': <<>> where it gives undefined
provideInlayHints(doc, elements, missingProps, hasScanner) ==
    LET enabled == IF missingProps = <<>> THEN FALSE ELSE missingProps[1]
    IN  IF ~doc.supported \/ ~enabled \/ ~doc.virtual THEN Undefined
        ELSE [kind |-> "list",
              items |-> HintsOfMaps(doc.maps, Render(elements), Scan(elements, 0),
                            hasScanner, <<>>)]

-----------------------------------------------------------------------------
(* Completion and hover requests in any order: what the calls leave on the *)
(* base service is what the next call finds.                               *)

NoServiceCall == [op |-> "none"]

\* provideCompletionItems, as a whole
ProvideCompletionItems ==
    \E doc \in DocumentKinds, ctx \in CompletionContexts, answered \in BOOLEAN :
        LET r == provideCompletionItems(doc, ctx, answered, customData)
        IN  /\ customData' = r.customData
            /\ serviceCall' =
                  [op |-> "provideCompletionItems", document |-> doc, context |-> ctx,
                   installed |-> doc.supported /\ doc.virtual
                                     /\ \E k \in 1..Len(doc.maps) : doc.maps[k].vue,
                   htmlComplete |-> IF doc.supported /\ answered
                                    THEN <<BaseCompletion(ctx,
                                              InstallAll(IF doc.virtual THEN doc.maps
                                                         ELSE <<>>, customData))>>
                                    ELSE <<>>,
                   result |-> [kind |-> r.kind, items |-> r.items]]
            /\ UNCHANGED <<formattingVars, pluginVars, request>>

\* provideHover: with a virtual file the extra data is reset before the base
\* service is asked
ProvideHover ==
    \E doc \in DocumentKinds :
        /\ customData' = IF doc.supported /\ doc.virtual THEN <<>> ELSE customData
        /\ serviceCall' = [op |-> "provideHover", document |-> doc]
        /\ UNCHANGED <<formattingVars, pluginVars, request>>

InitCompletion ==
    /\ customData = <<>>
    /\ request = [op |-> "none"]
    /\ serviceCall = NoServiceCall
    /\ FormattingIdle
    /\ PluginIdle

NextCompletion ==
    \/ ProvideCompletionItems
    \/ ProvideHover

SpecCompletion == InitCompletion /\ [][NextCompletion]_vars

-----------------------------------------------------------------------------
(* One request for diagnostics, semantic tokens or inlay hints, or one    *)
(* identifier read back, for every small input                             *)

BaseDiagnostic(message) ==
    [range |-> [start |-> [line |-> 0, character |-> 0],
                end   |-> [line |-> 0, character |-> 1]],
     severity |-> Severity.Warning, code |-> 0, source |-> "html", message |-> message]

\* what the base service returns for diagnostics: undefined (<<>>) or a list
BaseDiagnostics ==
    { <<>>, << <<>> >>, << <<BaseDiagnostic("m1")>> >>,
      << <<BaseDiagnostic("m1"), BaseDiagnostic("m2")>> >> }

ElementSeqs == UNION {[1..n -> ElementKinds] : n \in 1..MaxElements}

DiagnosticRequests ==
    [op : {"provideDiagnostics"}, document : DocumentKinds,
     elements : {<<[tag |-> "open", name |-> <<"d", "i", "v">>, attrs |-> <<>>]>>,
                 <<[tag |-> "open", name |-> <<"d", "i", "v">>, attrs |-> <<>>],
                   [tag |-> "close", name |-> <<"d", "i", "v">>, attrs |-> <<>>]>>},
     originalResult : BaseDiagnostics]

Legends ==
    { [tokenTypes |-> <<"class", "component">>],
      [tokenTypes |-> <<"class">>],
      [tokenTypes |-> <<>>] }

\* what the base service returns for semantic tokens: undefined (<<>>) or a list
BaseTokens == { <<>>, << << <<0, 1, 3, 0, 0>> >> >> }

TokenRequests ==
    [op : {"provideDocumentSemanticTokens"}, document : DocumentKinds,
     elements : ElementSeqs,
     range : {[start |-> 0, end |-> 40], [start |-> 0, end |-> 3], [start |-> 4, end |-> 40]},
     legend : Legends, base : BaseTokens, hasScanner : BOOLEAN]

\* provideDiagnostics, as a whole
ProvideDiagnostics ==
    /\ request.op = "provideDiagnostics"
    /\ serviceCall = NoServiceCall
    /\ serviceCall' =
          [op |-> request.op,
           result |-> provideDiagnostics(request.document, Render(request.elements),
                          request.originalResult)]
    /\ UNCHANGED <<formattingVars, pluginVars, customData, request>>

\* provideDocumentSemanticTokens, as a whole
ProvideDocumentSemanticTokens ==
    /\ request.op = "provideDocumentSemanticTokens"
    /\ serviceCall = NoServiceCall
    /\ serviceCall' =
          [op |-> request.op,
           result |-> provideDocumentSemanticTokens(request.document, request.elements,
                          request.range, request.legend, request.base,
                          request.hasScanner)]
    /\ UNCHANGED <<formattingVars, pluginVars, customData, request>>

\* the arguments of the identifiers provideAttributes creates: the tag or '*',
\* and the name of a prop or an event
ItemIdArgs ==
    { <<who, name>> :
        who \in {<<"*">>, <<"M", "y", "C", "o", "m", "p">>, <<"m", "y", "-", "c", "o", "m", "p">>, <<"F", "o", "o", ".", "B", "a", "r">>},
        name \in {<<"f", "o", "o">>, <<"u", "p", "d", "a", "t", "e", ":", "m", "o", "d", "e", "l", "V", "a", "l", "u", "e">>, <<"o", "n", "-", "c", "l", "i", "c", "k">>, <<"a", "_", "b">>} }

\* documentation that is not an identifier
ForeignKeys ==
    { <<>>, <<"A", " ", "p", "r", "o", "p", ".">>, <<"_", "V", "L", "S", "_", ":", ":", "c", "o", "m", "p", "o", "n", "e", "n", "t", "P", "r", "o", "p", ":", ":", "*", ",", "i", "d">>,
      <<" ", "_", "_", "V", "L", "S", "_", ":", ":", "c", "o", "m", "p", "o", "n", "e", "n", "t", "P", "r", "o", "p", ":", ":", "*", ",", "i", "d">>, <<"s", "e", "e", " ", "_", "_", "V", "L", "S", "_", ":", ":">> }

ItemIdRequests ==
    [op : {"readInternalItemId"}, made : {TRUE}, type : {componentProp, componentEvent},
     args : ItemIdArgs, key : {<<>>}]
    \cup [op : {"readInternalItemId"}, made : {FALSE}, type : {<<>>}, args : {<<>>},
          key : ForeignKeys]

\* readInternalItemId of the documentation of an item: an identifier made by
\* createInternalItemId, or other text
ReadInternalItemId ==
    /\ request.op = "readInternalItemId"
    /\ serviceCall = NoServiceCall
    /\ LET key == IF request.made THEN createInternalItemId(request.type, request.args)
                  ELSE request.key
       IN  serviceCall' = [op |-> request.op, key |-> key, result |-> readInternalItemId(key)]
    /\ UNCHANGED <<formattingVars, pluginVars, customData, request>>

\* Most attributes of a start tag.
MaxAttributes == 2

\* the attributes of the start tags of the documents hints are asked for
AttributeKinds ==
    { Attribute(<<"f", "o", "o">>, <<>>),
      Attribute(<<":", "f", "o", "o", "-", "b", "a", "r">>, <<<<"\"", "1", "\"">>>>),
      Attribute(<<"v", "-", "b", "i", "n", "d", ":", "f", "o", "o", ".", "c", "a", "m", "e", "l">>, <<<<"\"", "1", "\"">>>>),
      Attribute(<<"v", "-", "m", "o", "d", "e", "l", ":", "f", "o", "o", "B", "a", "r">>, <<<<"\"", "1", "\"">>>>),
      Attribute(<<"v", "-", "m", "o", "d", "e", "l">>, <<<<"\"", "1", "\"">>>>),
      Attribute(<<"v", "-", "b", "i", "n", "d">>, <<<<"\"", "1", "\"">>>>),
      Attribute(<<"@", "f", "o", "o">>, <<<<"\"", "1", "\"">>>>),
      Attribute(<<"i", "d">>, <<<<"\"", "1", "\"">>>>) }

AttributeSeqs == UNION {[1..n -> AttributeKinds] : n \in 0..MaxAttributes}

\* a start tag with attributes
StartTags ==
    [tag : {"open", "selfClose"}, name : TagNames \cup {<<"O", "t", "h", "e", "r">>}, attrs : AttributeSeqs]

\* what comes before or after it in the document
OtherElements ==
    { [tag |-> "open", name |-> <<"d", "i", "v">>, attrs |-> <<Attribute(<<"f", "o", "o">>, <<>>),
                                                     Attribute(<<":", "f", "o", "o", "-", "b", "a", "r">>, <<<<"\"", "1", "\"">>>>)>>],
      [tag |-> "selfClose", name |-> <<"M", "y", "C", "o", "m", "p">>, attrs |-> <<>>],
      [tag |-> "close", name |-> <<"M", "y", "C", "o", "m", "p">>, attrs |-> <<>>] }

\* the documents: one start tag, alone, or with another element before or after
HintElements ==
    {<<e>> : e \in StartTags}
    \cup {<<e, o>> : e \in StartTags, o \in OtherElements}
    \cup {<<o, e>> : o \in OtherElements, e \in StartTags}

HintRequests ==
    [op : {"provideInlayHints"},
     document : {doc \in DocumentKinds :
                    doc.uri \in {"A.vue.template.html", "B.vue.template.html"}},
     elements : HintElements, missingProps : {<<TRUE>>}, hasScanner : {TRUE}]
    \cup [op : {"provideInlayHints"}, document : DocumentKinds,
          elements : {<<[tag |-> "open", name |-> <<"M", "y", "C", "o", "m", "p">>, attrs |-> <<>>]>>},
          missingProps : {<<>>, <<TRUE>>, <<FALSE>>}, hasScanner : BOOLEAN]

\* provideInlayHints, as a whole
ProvideInlayHints ==
    /\ request.op = "provideInlayHints"
    /\ serviceCall = NoServiceCall
    /\ serviceCall' =
          [op |-> request.op,
           result |-> provideInlayHints(request.document, request.elements,
                          request.missingProps, request.hasScanner)]
    /\ UNCHANGED <<formattingVars, pluginVars, customData, request>>

InitRequests ==
    /\ customData = <<>>
    /\ request \in DiagnosticRequests \cup TokenRequests \cup ItemIdRequests
                   \cup HintRequests
    /\ serviceCall = NoServiceCall
    /\ FormattingIdle
    /\ PluginIdle

NextRequests ==
    \/ ProvideDiagnostics
    \/ ProvideDocumentSemanticTokens
    \/ ReadInternalItemId
    \/ ProvideInlayHints

SpecRequests == InitRequests /\ [][NextRequests]_vars

-----------------------------------------------------------------------------
(* Properties *)

\* the mapping entries of the template formatting script of the SourceFile
FormattingScriptEntries ==
    IF Len(sourceFile.templateFormattingScript.sourceMap) = 0 THEN <<>>
    ELSE sourceFile.templateFormattingScript.sourceMap[1].mappings

\* the source maps regenerated from the current composite document
Regenerated == Generate(newDocument)

\* the mapping entries of sm that the generated range of a backend edit meets
EntriesMet(sm, textEdit) ==
    {i \in 1..Len(sm.mappings) :
        Intersects(sm, sm.mappings[i], textEdit.range.start, textEdit.range.end)}

\* C1: an invocation that completes returns no edit when the text after all
\* passes equals the input text, and otherwise exactly one edit, from offset 0 to
\* the length of the input text, whose newText is the whole final text.
C1_SingleWholeDocumentEdit ==
    pc = "done" =>
        IF newDocument.text = document.text
        THEN returned = <<>>
        ELSE /\ Len(returned) = 1
             /\ returned[1].range = [start |-> 0, end |-> Len(document.text)]
             /\ returned[1].newText = newDocument.text

C1_Witness ==
    /\ pc = "done"
    /\ Len(returned) = 1
    /\ Len(newDocument.text) # Len(document.text)

\* C2: once the pug/html pass has applied edits, every request of the script and
\* style loops, and every translation, uses source maps regenerated from the new
\* composite text.
C2_Pass2UsesRegeneratedMaps ==
    (pc \in {"ts", "css"} /\ newDocument.version > document.version) =>
        /\ sourceFile.document = newDocument
        /\ tsSourceMaps(sourceFile) = tsSourceMaps(Regenerated)
        /\ sourceFile.cssSourceMaps = Regenerated.cssSourceMaps
        /\ maps = IF pc = "ts" THEN tsSourceMaps(Regenerated)
                  ELSE Regenerated.cssSourceMaps
        /\ \A r \in pending :
              /\ r.phase = pc
              /\ r.sourceMap = maps[r.index]

C2_Witness ==
    /\ pc = "ts"
    /\ newDocument.version > document.version
    /\ newDocument.text # document.text
    /\ pending # {}

\* what a step taken from the end of a pass does to the document and the maps
C3_PassStep ==
    pc \in {"pass1", "pass2"} =>
        LET passEdits == IF pc = "pass1" THEN edits.pug \o edits.html
                         ELSE edits.ts \o edits.css
        IN  IF passEdits # <<>>
            THEN /\ newDocument'.version = newDocument.version + 1
                 /\ newDocument'.text = applyEdits(newDocument.text, passEdits).text
                 /\ sourceFile'.updates = sourceFile.updates + 1
                 /\ sourceFile'.document = newDocument'
                 /\ tsSourceMaps(sourceFile') = tsSourceMaps(Generate(newDocument'))
                 /\ sourceFile'.cssSourceMaps = Generate(newDocument').cssSourceMaps
            ELSE newDocument' = newDocument /\ sourceFile' = sourceFile

\* C3: each of the two backend passes creates a new document version (previous
\* + 1) and regenerates the SourceFile exactly when the pass has edits, applying
\* them all in one application; with no edits it changes neither.
C3_PassAppliesIffEdits == [][C3_PassStep]_vars

C3_Witness ==
    /\ pc = "patch"
    /\ edits.ts = <<>> /\ edits.css # <<>>
    /\ newDocument.version = document.version + 1
    /\ sourceFile.updates = 1

\* C4: a backend edit whose generated range is covered only by mapping entries
\* (or a source map) without the formatting capability yields no translated edit.
C4_CapabilityGating ==
    lastCall.phase # "none" =>
        \A i \in 1..Len(lastCall.response.edits) :
            LET sm  == lastCall.sourceMap
                met == EntriesMet(sm, lastCall.response.edits[i])
            IN  (/\ met # {}
                 /\ \/ ~sm.capabilities.formatting
                    \/ \A k \in met : ~sm.mappings[k].data.capabilities.formatting)
                => lastCall.translated[i] = <<>>

\* C5: a backend that fails or returns nothing does not make the invocation fail.
C5_BackendFailureNotFatal ==
    (lastCall.phase # "none" /\ lastCall.response.kind # "edits") => pc # "rejected"

\* C6: formatting the output of an invocation again returns no edit.
C6_Idempotent ==
    (run > 1 /\ pc = "done") => returned = <<>>

\* C9: at most one backend request is outstanding, it belongs to the running
\* loop, and none is outstanding when a pass applies its edits or later.
C9_NoOverlappingCalls ==
    /\ Cardinality(pending) <= 1
    /\ \A r \in pending : r.phase = pc
    /\ pc \notin Loops => pending = {}

C9_Witness ==
    /\ pending # {}
    /\ idx <= Len(maps)
    /\ ~Skips(pc, maps[idx])

\* C10: a backend edit whose generated range straddles two formatting-capable
\* mapping entries with disjoint source ranges yields exactly two translated
\* edits, each with the edit's newText and its own narrowed source range.
C10_SplitResults ==
    lastCall.phase # "none" =>
        \A i \in 1..Len(lastCall.response.edits) :
            LET sm  == lastCall.sourceMap
                e   == lastCall.response.edits[i]
                met == EntriesMet(sm, e)
            IN  (/\ Cardinality(met) = 2
                 /\ sm.capabilities.formatting
                 /\ \A k \in met : sm.mappings[k].data.capabilities.formatting)
                => /\ Len(lastCall.translated[i]) = 2
                   /\ \A j \in 1..2 :
                        \E k \in met :
                            LET n == Narrowed(sm.mappings[k], e.range.start, e.range.end)
                            IN  lastCall.translated[i][j] = TextEdit(n.start, n.end, e.newText)
                   /\ lastCall.translated[i][1] # lastCall.translated[i][2]


\* leading whitespace of a line, as a claim reads it
C7_Indent(line) ==
    LET ks == {k \in 0..Len(line) : \A i \in 1..k : line[i] \in Whitespace}
    IN  SubSeq(line, 1, CHOOSE k \in ks : \A j \in ks : j <= k)

\* the whole line of the text that holds offset off
C7_LineAt(text, off) ==
    LET before == {i \in 1..off : text[i] = NL}
        after  == {i \in (off + 1)..Len(text) : text[i] = NL}
        from   == IF before = {} THEN 1
                  ELSE (CHOOSE i \in before : \A j \in before : j <= i) + 1
        to     == IF after = {} THEN Len(text)
                  ELSE (CHOOSE i \in after : \A j \in after : i <= j) - 1
    IN  SubSeq(text, from, to)

\* the base indent with the removal indent stripped from it (its first occurrence)
C7_Stripped(base, removal) ==
    LET ks == {k \in 0..(Len(base) - Len(removal)) :
                  SubSeq(base, k + 1, k + Len(removal)) = removal}
    IN  IF ks = {} THEN base
        ELSE LET k == CHOOSE i \in ks : \A j \in ks : i <= j
             IN  SubSeq(base, 1, k) \o SubSeq(base, k + Len(removal) + 1, Len(base))

\* what the rule asks of one mapping entry
C7_Expected(text, m) ==
    LET lines   == Split(Slice(text, m.sourceRange.start, m.sourceRange.end))
        removal == C7_Indent(lines[Len(lines)])
        base    == C7_Indent(C7_LineAt(text, m.sourceRange.start))
    IN  IF ~m.data.capabilities.formatting \/ Len(lines) = 1 THEN <<>>
        ELSE <<TextEdit(m.sourceRange.start, m.sourceRange.end,
                 Join([i \in 1..Len(lines) |->
                     IF i = 1 THEN lines[1]
                     ELSE IF StartsWith(lines[i], removal)
                     THEN base \o SubSeq(lines[i], Len(removal) + 1, Len(lines[i]))
                     ELSE C7_Stripped(base, removal) \o lines[i]]))>>

C8_ExampleRepaired ==
    (pc \in {"return", "done"} /\ document.text = ExampleText) =>
        /\ indentTextEdits = <<TextEdit(5, 5 + Len(ExampleSpan), C8_ExpectedText)>>
        /\ newDocument.text = <<"T", NL, " ", " ", "{">> \o C8_ExpectedText \o <<"}">>

C8_Witness ==
    /\ pc = "return"
    /\ document.text = ExampleText
    /\ Len(indentTextEdits) = 1

\* what a step of the style loop does at the head of its body
C11_Step ==
    /\ (pc = "css" /\ ~Awaiting /\ idx <= Len(maps)) =>
          LET sm == maps[idx]
              L  == sm.mappedDocument.languageId
          IN  IF sm.capabilities.formatting /\ L \in {"css", "less", "scss", "postcss"}
              THEN /\ Cardinality(pending') = 1
                   /\ \A r \in pending' :
                         /\ r.sourceMap = sm
                         /\ r.formatter = L
              ELSE /\ pending' = {}
                   /\ edits' = edits
                   /\ idx' = idx + 1
    /\ \A r \in pending :
          (r.phase = "css" /\ lastCall' # lastCall) =>
              /\ lastCall'.sourceMap = r.sourceMap
              /\ lastCall'.response =
                     Response(formatters[r.sourceMap.mappedDocument.languageId],
                              r.sourceMap.mappedDocument.text)

\* C11: a formatting-capable style document whose language identifier L is css,
\* less, scss or postcss is formatted by the formatter registered for L and by
\* no other; for any other language identifier no formatter is called and the
\* document contributes no edits.
C11_StyleDialectDispatch == [][C11_Step]_vars

C11_Witness ==
    /\ \E r \in pending : r.phase = "css" /\ r.formatter = "less" /\ r.index = 2
    /\ formatters.less # formatters.css

\* what the script loop and the indentation repair do without a source map of the
\* template formatting script
C12_Step ==
    sourceFile.templateFormattingScript.sourceMap = <<>> =>
        /\ pc = "pass1" =>
              /\ pc' \in Loops => maps' = sourceFile'.docLsScripts.sourceMaps
              /\ sourceFile'.templateFormattingScript.sourceMap = <<>> => pc' = "ts"
        /\ (pc = "ts" /\ ~Awaiting /\ idx <= Len(maps) /\ maps[idx].capabilities.formatting) =>
              \E r \in pending' : r.phase = "ts" /\ r.sourceMap = maps[idx]
        /\ pc = "patch" =>
              /\ indentTextEdits' = <<>>
              /\ newDocument'.text = newDocument.text
              /\ pc' = "return"
        /\ pc = "return" => pc' = "done"

\* C12: when the template formatting script has no source map, the script loop
\* skips it and still formats the script documents, the indentation repair
\* yields no edits, and the invocation completes.
C12_MissingSourceMapSkipped == [][C12_Step]_vars

C12_Witness ==
    /\ pc = "done"
    /\ sourceFile.templateFormattingScript.sourceMap = <<>>
    /\ edits.ts # <<>>
    /\ indentTextEdits = <<>>

\* C20: once the pug and html loops have yielded no edits, no backend request is
\* issued in the script and style loops.
C20_EarlyStop ==
    (pc \in {"ts", "css"} /\ ~HasEdits(edits.pug, edits.html)) => pending = {}

\* the name the naming scheme gives block i (0-based) of the file
C13_Name(i) ==
    fileName \o <<".", "c", "u", "s", "t", "o", "m", "B", "l", "o", "c", "k", "_">>
        \o sfc.customBlocks[i + 1].type \o <<"_">> \o Decimal(i) \o <<".">>
        \o sfc.customBlocks[i + 1].lang

\* C13: getEmbeddedFileNames returns one name per custom block, in block order,
\* the i-th (0-based) being F.customBlock_<type_i>_<i>.<lang_i>; asked again for
\* the same blocks it returns the same names.
C13_CustomBlockNaming ==
    pluginCall.op = "getEmbeddedFileNames" =>
        /\ Len(names) = Len(sfc.customBlocks)
        /\ \A i \in 0..(Len(names) - 1) : names[i + 1] = C13_Name(i)

C13_Witness ==
    /\ pluginCall.op = "getEmbeddedFileNames"
    /\ Len(names) = 2
    /\ fileName = <<"W", ".", "v", "u", "e">>
    /\ names[1] = <<"W", ".", "v", "u", "e", ".", "c", "u", "s", "t", "o", "m", "B", "l",
                    "o", "c", "k", "_", "d", "o", "c", "s", "_", "0", ".", "m", "d">>

\* C14: resolving the name getEmbeddedFileNames gives block i appends exactly one
\* chunk: block i's content, block i as its source, offset 0, every capability.
C14_NameRoundTrip ==
    (/\ pluginCall.op = "resolveEmbeddedFile"
     /\ \E i \in 0..(Len(sfc.customBlocks) - 1) : embeddedFile.fileName = C13_Name(i)) =>
        \E i \in 0..(Len(sfc.customBlocks) - 1) :
            /\ embeddedFile.fileName = C13_Name(i)
            /\ ~pluginCall.threw
            /\ embeddedFile.content =
                  << <<sfc.customBlocks[i + 1].content, sfc.customBlocks[i + 1].name, 0,
                       [formatting |-> TRUE, completion |-> TRUE, diagnostics |-> TRUE,
                        hover |-> TRUE, semanticTokens |-> TRUE, references |-> TRUE]>> >>

\* C15: resolveEmbeddedFile never raises an error; for a name of the custom-block
\* shape whose index is no index of the current blocks it adds no content.
C15_ResolveNeverFails ==
    pluginCall.op = "resolveEmbeddedFile" =>
        /\ ~pluginCall.threw
        /\ (/\ customBlockReg(embeddedFile.fileName) # <<>>
            /\ parseInt(customBlockReg(embeddedFile.fileName)[1].index) >= Len(sfc.customBlocks))
           => embeddedFile.content = <<>>

\* C16: no item of a list that provideCompletionItems returns has a documentation
\* that begins with '__VLS_::', whatever requests came before.
C16_NoSyntheticIdentifiers ==
    (serviceCall.op = "provideCompletionItems" /\ serviceCall.result.kind = "list") =>
        \A k \in 1..Len(serviceCall.result.items) :
            LET item == serviceCall.result.items[k]
            IN  item.documentation = <<>> \/ ~StartsWith(item.documentation[1], Sentinel)

\* the characters in the order of their code units
C17_CodeOrder ==
    <<U0, U1, U2, U3, "*", ",", "-", ".">> \o Digits \o <<":", "@">> \o Upper
        \o <<"_">> \o Lower

C17_Code(c) == CHOOSE k \in 1..Len(C17_CodeOrder) : C17_CodeOrder[k] = c

RECURSIVE C17_Less(_, _)
\* a sorts before b
C17_Less(a, b) ==
    IF Len(b) = 0 THEN FALSE
    ELSE IF Len(a) = 0 THEN TRUE
    ELSE IF a[1] = b[1] THEN C17_Less(Tail(a), Tail(b))
    ELSE C17_Code(a[1]) < C17_Code(b[1])

\* what an item of the base service's list is: "component" (a tag naming a known
\* component, a prop or event of a specific component), "structural", "directive"
\* (any other v- label) or "generic"
C17_Class(item) ==
    LET id == IF item.documentation = <<>> THEN [found |-> FALSE]
              ELSE readInternalItemId(item.documentation[1])
    IN  IF \/ item.kind = Kind.Property /\ \E vf \in VueFiles : item.label \in vf.componentTag
           \/ id.found /\ id.args[1] # <<"*">>
        THEN "component"
        ELSE IF item.label \in {<<"v", "-", "i", "f">>, <<"v", "-", "e", "l", "s", "e", "-", "i", "f">>, <<"v", "-", "e", "l", "s", "e">>, <<"v", "-", "f", "o", "r">>}
        THEN "structural"
        ELSE IF StartsWith(item.label, <<"v", "-">>) THEN "directive"
        ELSE "generic"

\* C17: by sortText (the label where an item has none), every component-derived
\* item of a returned list comes before every generic item, every generic item
\* before every other v- directive, and the structural directives after all
\* other items.
C17_CompletionOrdering ==
    (serviceCall.op = "provideCompletionItems" /\ serviceCall.result.kind = "list") =>
        LET base  == serviceCall.htmlComplete[1]
            items == serviceCall.result.items
            class(k) == IF k <= Len(base) THEN C17_Class(base[k]) ELSE "generic"
            key(k)   == SortTextOrLabel(items[k])
        IN  \A i, j \in 1..Len(items) :
                /\ (class(i) = "component" /\ class(j) = "generic") => C17_Less(key(i), key(j))
                /\ (class(i) = "generic" /\ class(j) = "directive") => C17_Less(key(i), key(j))
                /\ (class(i) # "structural" /\ class(j) = "structural")
                       => C17_Less(key(i), key(j))

\* the component names resolved for a document: those of the Vue files its maps
\* lead to, and their hyphenated forms
C18_Components(doc) ==
    UNION {{c, hyphenateTag(c)} :
              c \in UNION {Elements(VueFileOf(doc.maps[k].source).components) :
                              k \in {n \in 1..Len(doc.maps) : doc.maps[n].vue}}}

C19_CompilerDiagnostics ==
    (/\ serviceCall.op = "provideDiagnostics"
     /\ request.document.supported /\ request.document.virtual
     /\ \E k \in 1..Len(request.document.maps) : request.document.maps[k].vue) =>
        LET vues     == SelectSeq(request.document.maps, LAMBDA map : map.vue)
            vf       == VueFileOf(vues[1].source)
            original == IF request.originalResult = <<>> THEN <<>>
                        ELSE request.originalResult[1]
            errors   == IF vf.template = <<>> THEN <<>> ELSE vf.template[1].errors
            warnings == IF vf.template = <<>> THEN <<>> ELSE vf.template[1].warnings
            items    == serviceCall.result.items
            n        == Len(original)
            start    == [line |-> 0, character |-> 0]
            reports(d, e, severity) ==
                /\ d.severity = severity
                /\ d.message = e.message
                /\ e.loc = <<>> => d.range = [start |-> start, end |-> start]
        IN  /\ serviceCall.result.kind = "list"
            /\ Len(items) = n + Len(errors) + Len(warnings)
            /\ SubSeq(items, 1, n) = original
            /\ \A k \in 1..Len(errors) : reports(items[n + k], errors[k], 1)
            /\ \A k \in 1..Len(warnings) : reports(items[n + Len(errors) + k], warnings[k], 2)

C19_Witness ==
    /\ serviceCall.op = "provideDiagnostics"
    /\ request.document.uri = "A.vue.template.html"
    /\ Len(request.elements) = 2
    /\ request.originalResult # <<>>
    /\ serviceCall.result.kind = "list"
    /\ Len(serviceCall.result.items) = 5
    /\ serviceCall.result.items[3].range.start = [line |-> 0, character |-> 0]
    /\ serviceCall.result.items[4].range.end = [line |-> 1, character |-> 2]

\* the source maps a SourceFile holds
C24_MapsOf(sf) ==
    Elements(sf.pugSourceMaps \o sf.htmlSourceMaps \o sf.cssSourceMaps \o tsSourceMaps(sf))

\* C24: wherever a backend's edits are about to be translated through a source
\* map, a pass's edits are about to be applied, or the indentation repair is about
\* to be computed, the SourceFile was generated from the text of newDocument, and
\* the source map a pending request holds is one of that SourceFile's.
C24_DocumentMapAgreement ==
    (pending # {} \/ pc \in {"pass1", "pass2", "patch"}) =>
        /\ sourceFile.document.text = newDocument.text
        /\ \A r \in pending : r.sourceMap \in C24_MapsOf(sourceFile)

C24_Witness ==
    /\ pc = "patch"
    /\ sourceFile.updates = 2
    /\ newDocument.text # document.text
    /\ patchInterpolationIndent(sourceFile) # <<>>
    /\ sourceFile.document.text = newDocument.text

\* C23: a call of resolveEmbeddedFile for a name that does not match the naming
\* pattern of custom blocks does not throw and leaves the embedded file as the
\* host created it, with no content.
C23_ForeignNameUntouched ==
    (/\ pluginCall.op = "resolveEmbeddedFile"
     /\ customBlockReg(embeddedFile.fileName) = <<>>) =>
        /\ ~pluginCall.threw
        /\ embeddedFile.content = <<>>

C23_Witness ==
    /\ pluginCall.op = "resolveEmbeddedFile"
    /\ Len(sfc.customBlocks) = 2
    /\ embeddedFile.fileName = fileName \o <<".", "t", "s">>
    /\ customBlockReg(embeddedFile.fileName) = <<>>
    /\ embeddedFile.content = <<>>

\* C27: for a supported document, the diagnostics the base service returned are
\* all in the result of provideDiagnostics, in the order the base service gave them.
C27_BaseDiagnosticsKept ==
    (/\ serviceCall.op = "provideDiagnostics"
     /\ request.document.supported
     /\ request.originalResult # <<>>) =>
        LET original == request.originalResult[1]
            items    == IF serviceCall.result.kind = "list" THEN serviceCall.result.items
                        ELSE <<>>
        IN  \E f \in [1..Len(original) -> 1..Len(items)] :
                /\ \A i, j \in 1..Len(original) : i < j => f[i] < f[j]
                /\ \A i \in 1..Len(original) : items[f[i]] = original[i]

\* C28: every token provideDocumentSemanticTokens adds to the base service's has a
\* token type that is an index into legend.tokenTypes, and is the token of a tag
\* whose offset lies between the start and the end of the requested range.
C28_TokenTypeInLegend ==
    (/\ serviceCall.op = "provideDocumentSemanticTokens"
     /\ serviceCall.result.kind = "list") =>
        LET text   == Render(request.elements)
            tokens == Scan(request.elements, 0)
            base   == IF request.base = <<>> THEN <<>> ELSE request.base[1]
            items  == serviceCall.result.items
        IN  \A n \in (Len(base) + 1)..Len(items) :
                /\ items[n][4] \in 0..(Len(request.legend.tokenTypes) - 1)
                /\ \E k \in 1..Len(tokens) :
                      /\ tokens[k].offset >= request.range.start
                      /\ tokens[k].offset <= request.range.end
                      /\ items[n][1] = positionAt(text, tokens[k].offset).line
                      /\ items[n][2] = positionAt(text, tokens[k].offset).character

\* C25: when a provideCompletionItems call that installed the data providers of a
\* Vue file on the base service has returned, the custom data of the base service
\* is the empty list again.
C25_CustomDataReset ==
    (serviceCall.op = "provideCompletionItems" /\ serviceCall.installed) =>
        customData = <<>>

C26_IsComponentTag(vf, name) ==
    \E c \in Elements(vf.components) :
        \/ name = c
        \/ name = hyphenateTag(c)
        \/ IndexOf(name, <<".">>) >= 0 /\ SplitBy(name, <<".">>)[1] = c

\* an attribute name without its modifiers
C26_NoModifiers(text) == SplitBy(text, <<".">>)[1]

\* an attribute name without its modifiers and without the prefix ':', 'v-bind:',
\* 'v-model:' or '@'
C26_Stripped(text) ==
    LET t == C26_NoModifiers(text)
        prefixes == {p \in {<<":">>, <<"v", "-", "b", "i", "n", "d", ":">>, <<"v", "-", "m", "o", "d", "e", "l", ":">>, <<"@">>} : StartsWith(t, p)}
    IN  IF prefixes = {} THEN t
        ELSE LET p == CHOOSE p \in prefixes : TRUE
             IN  SubSeq(t, Len(p) + 1, Len(t))

\* the prop an attribute stands for: as C26_Stripped, but a listener '@name' stands
\* for the prop 'on-' + name and a v-model without argument for modelValue
C26_PropOf(text) ==
    LET t == C26_NoModifiers(text)
    IN  IF StartsWith(t, <<"@">>) THEN <<"o", "n", "-">> \o hyphenateAttr(Tail(t))
        ELSE IF t = <<"v", "-", "m", "o", "d", "e", "l">> THEN <<"m", "o", "d", "e", "l", "V", "a", "l", "u", "e">>
        ELSE C26_Stripped(text)

\* the labels expected for the start tag e, an attribute a supplying the required
\* prop p where Supplied(a, p)
C26_Labels(vf, e, Supplied(_, _)) ==
    IF \/ e.tag \notin {"open", "selfClose"}
       \/ ~C26_IsComponentTag(vf, e.name)
       \/ \E k \in 1..Len(e.attrs) : e.attrs[k].name = <<"v", "-", "b", "i", "n", "d">>
    THEN <<>>
    ELSE LET missing == SelectSeq(vf.required,
                 LAMBDA p : \A k \in 1..Len(e.attrs) : ~Supplied(e.attrs[k].name, p))
         IN  [k \in 1..Len(missing) |-> missing[k] \o <<"!">>]

\* the hints expected of a provideInlayHints call, tag after tag
C26_Expected(Supplied(_, _)) ==
    LET doc  == request.document
        vues == SelectSeq(doc.maps, LAMBDA map : map.vue)
        on   == /\ doc.supported /\ doc.virtual /\ request.hasScanner
                /\ request.missingProps = <<TRUE>>
                /\ Len(vues) > 0
    IN  IF ~on THEN <<>>
        ELSE Concat([k \in 1..Len(request.elements) |->
                 C26_Labels(VueFileOf(vues[1].source), request.elements[k], Supplied)])

\* the labels of the hints a provideInlayHints call returned
C26_Returned ==
    IF serviceCall.result.kind # "list" THEN <<>>
    ELSE [k \in 1..Len(serviceCall.result.items) |-> serviceCall.result.items[k].label]

C21_Resolved(doc, name) ==
    \E k \in 1..Len(doc.maps) :
        /\ doc.maps[k].vue
        /\ SplitBy(name, <<".">>)[1] \in Elements(getComponentNames(VueFileOf(doc.maps[k].source)))

\* C21: a tag whose name has a '.' is a component tag exactly when the segment
\* before the first '.' is a resolved component name: its start-tag and end-tag
\* tokens inside the requested range get a semantic token exactly then, and its
\* start tag, closed and without attributes, gets the missing-prop hints of its
\* required props exactly then.
C21_NamespacedTags ==
    LET doc    == request.document
        text   == Render(request.elements)
        tokens == Scan(request.elements, 0)
        dotted == {k \in 1..Len(tokens) : /\ tokens[k].type \in {"StartTag", "EndTag"}
                                          /\ IndexOf(tokens[k].text, <<".">>) >= 0}
    IN  /\ (/\ serviceCall.op = "provideDocumentSemanticTokens"
            /\ serviceCall.result.kind = "list"
            /\ \E k \in 1..Len(doc.maps) : doc.maps[k].vue) =>
               \A k \in dotted :
                   (/\ tokens[k].offset >= request.range.start
                    /\ tokens[k].offset + tokens[k].length <= request.range.end) =>
                       (C21_Resolved(doc, tokens[k].text) <=>
                           \E n \in 1..Len(serviceCall.result.items) :
                               /\ n > (IF request.base = <<>> THEN 0 ELSE Len(request.base[1]))
                               /\ serviceCall.result.items[n][1]
                                     = positionAt(text, tokens[k].offset).line
                               /\ serviceCall.result.items[n][2]
                                     = positionAt(text, tokens[k].offset).character
                               /\ serviceCall.result.items[n][3] = tokens[k].length)
        /\ (/\ serviceCall.op = "provideInlayHints"
            /\ serviceCall.result.kind = "list"
            /\ request.hasScanner
            /\ \E k \in 1..Len(doc.maps) : doc.maps[k].vue) =>
               \A k \in dotted :
                   (/\ tokens[k].type = "StartTag"
                    /\ tokens[k + 1].type \in {"StartTagClose", "StartTagSelfClose"}) =>
                       LET at == positionAt(text, tokens[k].offset + tokens[k].length)
                           hints == SelectSeq(serviceCall.result.items,
                                        LAMBDA hint : hint.position = at)
                           vf == VueFileOf(SelectSeq(doc.maps, LAMBDA map : map.vue)[1].source)
                       IN  IF C21_Resolved(doc, tokens[k].text)
                           THEN [n \in 1..Len(hints) |-> hints[n].label]
                                    = [n \in 1..Len(getRequiredPropsByTag(vf, tokens[k].text)) |->
                                          getRequiredPropsByTag(vf, tokens[k].text)[n] \o <<"!">>]
                           ELSE hints = <<>>

====
